---------------------------- MODULE Spec2Model ----------------------------
(***************************************************************************)
(* A model of the appointment-scheduling voice agent backend:             *)
(*   - the booking store (server/storage.ts over shared/schema.ts),        *)
(*   - the tool executor executeToolCall (server/voiceAgent.ts),           *)
(*   - the call summarizer generateCallSummary (server/voiceAgent.ts),     *)
(*   - the tool-execute endpoint, the provider webhook and the creation    *)
(*     of a video call (server/routes.ts),                                 *)
(*   - the conversation turn processVoiceMessage (server/voiceAgent.ts) as *)
(*     POST /api/voice runs it (server/routes.ts).                         *)
(*                                                                         *)
(* Conventions.  JavaScript's absent values are modelled by the value of   *)
(* the same type that JavaScript treats as falsy: a user or appointment id *)
(* that is undefined/null is 0 (serial ids start at 1), an absent string   *)
(* (name, date) is "", an absent phone number or time is the empty         *)
(* sequence.  Phone numbers and time labels are sequences of one-character *)
(* strings, so that digit stripping and time normalisation are computed    *)
(* character by character as the code does.  A result text is modelled by  *)
(* a code naming the branch of the source that produced it.                *)
(***************************************************************************)
EXTENDS Integers, Sequences, FiniteSets, TLC

(***************************************************************************)
(* Bounds of the model.                                                    *)
(***************************************************************************)
\* appointments rows the store may hold
MaxAppts == 2
\* call sessions POST /api/sessions may create
MaxSessions == 2

\* identify_user accepts exactly this many digits (voiceAgent.ts:186,191)
PhoneDigits == 10

(***************************************************************************)
(* Characters, phone numbers.                                              *)
(***************************************************************************)
DigitChars == {"0", "1", "2", "3", "4", "5", "6", "7", "8", "9"}

IsDigit(c) == c \in DigitChars

\* phoneNumber.replace(/\D/g, ""): drop every character that is not a digit
RECURSIVE digitsOnly(_)
digitsOnly(s) ==
  IF s = <<>> THEN <<>>
  ELSE IF IsDigit(Head(s)) THEN <<Head(s)>> \o digitsOnly(Tail(s))
       ELSE digitsOnly(Tail(s))

\* inputs: punctuation variants of one number, a second number, a number
\* with too few digits and one with too many
Phone1Dashed == <<"5","5","5","-","1","2","3","-","4","5","6","7">>
Phone1Parens == <<"(","5","5","5",")"," ","1","2","3","-","4","5","6","7">>
Phone1Plain  == <<"5","5","5","1","2","3","4","5","6","7">>
Phone2Plain  == <<"5","5","5","9","8","7","6","5","4","3">>
PhoneShort   == <<"5","5","5","-","1","2","3","4">>
PhoneLong    == <<"1","5","5","5","1","2","3","4","5","6","7">>

PhoneInputs == {Phone1Dashed, Phone1Parens, Phone1Plain, Phone2Plain,
                PhoneShort, PhoneLong}

\* args.phone_number of a call whose arguments have no phone_number
PhoneAbsent == <<"undefined">>


(***************************************************************************)
(* Time labels and the slot catalog (shared/schema.ts).                    *)
(***************************************************************************)
\* the label "hh:mm xM"
Tm(h1, h2, m1, m2, p) == <<h1, h2, ":", m1, m2, " ", p, "M">>

Slot(d, t) == [date |-> d, time |-> t]

availableSlots == <<
  Slot("2026-01-28", Tm("0","9","0","0","A")),
  Slot("2026-01-28", Tm("1","0","0","0","A")),
  Slot("2026-01-28", Tm("0","2","0","0","P")),
  Slot("2026-01-28", Tm("0","3","0","0","P")),
  Slot("2026-01-29", Tm("0","9","0","0","A")),
  Slot("2026-01-29", Tm("1","1","0","0","A")),
  Slot("2026-01-29", Tm("0","1","0","0","P")),
  Slot("2026-01-29", Tm("0","4","0","0","P")),
  Slot("2026-01-30", Tm("1","0","0","0","A")),
  Slot("2026-01-30", Tm("0","2","0","0","P")),
  Slot("2026-01-30", Tm("0","3","3","0","P")),
  Slot("2026-01-31", Tm("0","9","0","0","A")),
  Slot("2026-01-31", Tm("1","1","3","0","A")),
  Slot("2026-01-31", Tm("0","2","0","0","P")),
  Slot("2026-02-01", Tm("1","0","0","0","A")),
  Slot("2026-02-01", Tm("0","1","0","0","P")),
  Slot("2026-02-01", Tm("0","3","0","0","P")) >>

\* a time that the extraction returned as a JSON number instead of a string
TimeNumber == <<"number">>

\* the characters of the date strings of the model
Ymd(m1, m2, d1, d2) == <<"2", "0", "2", "6", "-", m1, m2, "-", d1, d2>>

dateChars(d) ==
  CASE d = "2026-01-28" -> Ymd("0", "1", "2", "8")
    [] d = "2026-01-29" -> Ymd("0", "1", "2", "9")
    [] d = "2026-01-30" -> Ymd("0", "1", "3", "0")
    [] d = "2026-01-31" -> Ymd("0", "1", "3", "1")
    [] d = "2026-02-01" -> Ymd("0", "2", "0", "1")
    [] d = "2026-01"    -> <<"2", "0", "2", "6", "-", "0", "1">>
    [] OTHER            -> <<>>

\* the dates and times tool arguments are drawn from: the catalog slots
\* "2026-01-29" at "11:00 AM" and at "01:00 PM", "10:00 AM", which is no
\* catalog slot on that date, and "11:00 am", which normalizeTime maps to
\* the label "11:00 AM"
Date29    == "2026-01-29"
\* a date that is no calendar date and a time that is no label, whose
\* characters joined by "-" are those of "2026-01-29" and "11:00 AM"
DateYM    == "2026-01"
Time29_1100 == <<"2", "9", "-", "1", "1", ":", "0", "0", " ", "A", "M">>
Time1100  == Tm("1","1","0","0","A")
Time0100  == Tm("0","1","0","0","P")
Time1000  == Tm("1","0","0","0","A")
Time1100l == <<"1", "1", ":", "0", "0", " ", "a", "m">>

(***************************************************************************)
(* The booking store (server/storage.ts).  A table is the sequence of its  *)
(* rows; a row's serial id is its index.                                   *)
(***************************************************************************)
VARIABLES
  users,           \* users table: [phoneNumber, name]
  appointments,    \* appointments table: [userId, date, time, description, status]
  callSessions,    \* call_sessions table: [userId, phoneNumber, status, transcript]
  activeSessions,  \* routes.ts activeSessions: session id -> ConversationContext
  beyContexts,     \* routes.ts beyContexts: call id -> BeyContext
  pend,            \* per session: the tool call suspended at a store call
  last,            \* the last operation completed and the branch it returned by
  toolCalls,       \* tool_calls table: [sessionId, toolName]
  turn,            \* per session: the conversation turn that is running there
  beyUserAgentCache, \* routes.ts beyUserAgentCache: phone digits -> agent id
  beyAgents,       \* the provider's per-call agents: the appointments of the prompt
  beyCalls         \* the provider's calls: [agentId]

vars == <<users, appointments, callSessions, activeSessions, beyContexts, pend, last,
          toolCalls, turn, beyUserAgentCache, beyAgents, beyCalls>>

\* what the operations other than POST /api/bey/call leave alone
callVars == <<beyUserAgentCache, beyAgents, beyCalls>>

\* what the operations outside a conversation turn leave alone
turnVars == <<toolCalls, turn>>

\* storage.getUserByPhoneNumber: the id of the user with this number, 0 if none
getUserByPhoneNumber(us, phone) ==
  IF \E i \in DOMAIN us : us[i].phoneNumber = phone
  THEN CHOOSE i \in DOMAIN us :
         /\ us[i].phoneNumber = phone
         /\ \A j \in DOMAIN us : us[j].phoneNumber = phone => i <= j
  ELSE 0

\* a users table without the unique constraint
uniqueViolationNever(us, phone) == FALSE

\* users.phone_number is declared unique(): an insert of a number that a
\* row already holds is refused by the database
uniqueViolation(us, phone) == \E i \in DOMAIN us : us[i].phoneNumber = phone

\* storage.createUser
createUser(us, phone, name) == Append(us, [phoneNumber |-> phone, name |-> name])

\* storage.updateUser(id, { name })
updateUser(us, id, name) ==
  IF id \in DOMAIN us THEN [us EXCEPT ![id].name = name] ELSE us

\* storage.getAppointmentsByUser: the user's rows, newest first
RECURSIVE idsOfUserDesc(_, _, _)
idsOfUserDesc(appts, uid, n) ==
  IF n = 0 THEN <<>>
  ELSE IF appts[n].userId = uid
       THEN <<n>> \o idsOfUserDesc(appts, uid, n - 1)
       ELSE idsOfUserDesc(appts, uid, n - 1)

getAppointmentsByUser(appts, uid) == idsOfUserDesc(appts, uid, Len(appts))

\* apptRequest.description || "Appointment booked via voice call"
\* (voiceAgent.ts:693), args.description || "General appointment"
\* (routes.ts:829, 1042); a call of book_appointment of the model gives no
\* description, the column is then null, here ""
VoiceCallDescription == "Appointment booked via voice call"
GeneralDescription == "General appointment"

\* storage.createAppointment
createAppointment(appts, row) == Append(appts, row)

\* an update that writes the whole row anew, the description left out
updateAppointmentReplacing(appts, id, d, t, st) ==
  IF id \in DOMAIN appts
  THEN [appts EXCEPT ![id] = [userId |-> appts[id].userId, date |-> d, time |-> t,
                              description |-> "", status |-> st]]
  ELSE appts

\* storage.updateAppointment(id, { date, time, status })
updateAppointment(appts, id, d, t, st) ==
  IF id \in DOMAIN appts
  THEN [appts EXCEPT ![id].date = d, ![id].time = t, ![id].status = st]
  ELSE appts

\* storage.updateAppointment(id, { status })
updateAppointmentStatus(appts, id, st) ==
  IF id \in DOMAIN appts THEN [appts EXCEPT ![id].status = st] ELSE appts

\* a cancel that forgets its where clause
cancelAppointmentAll(appts, id) ==
  [i \in DOMAIN appts |-> [appts[i] EXCEPT !.status = "cancelled"]]

\* storage.cancelAppointment
cancelAppointment(appts, id) ==
  IF id \in DOMAIN appts THEN [appts EXCEPT ![id].status = "cancelled"] ELSE appts

\* storage.getBookedSlots: (date, time) of every row whose status is not cancelled
getBookedSlots(appts) ==
  {Slot(appts[i].date, appts[i].time) :
     i \in {j \in DOMAIN appts : appts[j].status # "cancelled"}}

\* storage.updateCallSession(id, { userId, phoneNumber })
updateCallSession(cs, id, uid, phone) ==
  IF id \in DOMAIN cs
  THEN [cs EXCEPT ![id].userId = uid, ![id].phoneNumber = phone]
  ELSE cs


(***************************************************************************)
(* normalizeTime (voiceAgent.ts:632-639).                                  *)
(***************************************************************************)
IsSpace(c) == c = " "

toUpperChar(c) ==
  CASE c = "a" -> "A" [] c = "p" -> "P" [] c = "m" -> "M" [] OTHER -> c

toLowerChar(c) ==
  CASE c = "A" -> "a" [] c = "P" -> "p" [] c = "M" -> "m" [] OTHER -> c

toLowerCase(t) == [i \in DOMAIN t |-> toLowerChar(t[i])]

RECURSIVE trimStart(_)
trimStart(t) ==
  IF t # <<>> /\ IsSpace(Head(t)) THEN trimStart(Tail(t)) ELSE t

RECURSIVE trimEnd(_)
trimEnd(t) ==
  IF t # <<>> /\ IsSpace(t[Len(t)]) THEN trimEnd(SubSeq(t, 1, Len(t) - 1)) ELSE t

trim(t) == trimEnd(trimStart(t))

\* the number of characters \d{1,2} takes so that ":" follows, 0 if none does
hourLen(t) ==
  IF Len(t) >= 3 /\ IsDigit(t[1]) /\ IsDigit(t[2]) /\ t[3] = ":" THEN 2
  ELSE IF Len(t) >= 2 /\ IsDigit(t[1]) /\ t[2] = ":" THEN 1
  ELSE 0

\* what follows the minutes: \s*(AM|PM|am|pm)?$ under the i flag
periodOf(t) == trimStart(SubSeq(t, hourLen(t) + 4, Len(t)))

isPeriod(r) ==
  \/ r = <<>>
  \/ /\ Len(r) = 2
     /\ toUpperChar(r[1]) \in {"A", "P"}
     /\ toUpperChar(r[2]) = "M"

\* time.match(/^(\d{1,2}):(\d{2})\s*(AM|PM|am|pm)?$/i)
timeMatches(t) ==
  /\ hourLen(t) > 0
  /\ Len(t) >= hourLen(t) + 3
  /\ IsDigit(t[hourLen(t) + 2])
  /\ IsDigit(t[hourLen(t) + 3])
  /\ isPeriod(periodOf(t))

normalizeTime(t) ==
  IF ~timeMatches(t) THEN trim(toLowerCase(t))
  ELSE LET h      == hourLen(t)
           hour   == IF h = 1 THEN <<"0", t[1]>> ELSE <<t[1], t[2]>>
           min    == <<t[h + 2], t[h + 3]>>
           period == [i \in DOMAIN periodOf(t) |-> toUpperChar(periodOf(t)[i])]
       IN  trim(hour \o <<":">> \o min \o <<" ">> \o period)

(***************************************************************************)
(* Contexts and results.                                                   *)
(***************************************************************************)
\* what an operation leaves in last: its name, the branch of the source
\* that produced its result text, the number the text carries (for the
\* summarizer newAppointmentsCreated, for fetch_slots the "and n more"), the
\* slots the text names and, for the summarizer, the session and the
\* extracted data the run worked with and the transcript its extraction
\* prompt carried; endCall is the endCall of executeToolCall's return value;
\* userName and phoneNumber are those of the summarizer's return value
Ret(op, r) ==
  [op |-> op, result |-> r, count |-> 0, slots |-> <<>>, input |-> <<>>,
   endCall |-> FALSE, prompt |-> "", userName |-> "", phoneNumber |-> <<>>]

NoLast == Ret("none", "none")

\* a fresh ConversationContext { sessionId, messages: [] }: no user fields;
\* of a message the model keeps the role
NewContext == [userId |-> 0, phoneNumber |-> <<>>, userName |-> "", messages |-> <<>>]

\* the context of a session after the turn in which identify_user ran
\* (voiceAgent.ts:220-222, 418, 542)
UserContext(us, uid) ==
  [userId |-> uid, phoneNumber |-> us[uid].phoneNumber, userName |-> us[uid].name,
   messages |-> <<"user", "assistant">>]

\* Map.set(id, ctx), Map.delete(id)
setContext(m, id, ctx) ==
  [k \in DOMAIN m \cup {id} |-> IF k = id THEN ctx ELSE m[k]]

deleteContext(m, id) == [k \in DOMAIN m \ {id} |-> m[k]]

(***************************************************************************)
(* POST /api/sessions (routes.ts:305-339).                                 *)
(***************************************************************************)
createSession(phone) ==
  /\ Len(callSessions) < MaxSessions
  /\ LET d   == digitsOnly(phone)
         uid == IF phone # <<>> /\ Len(d) >= PhoneDigits
                THEN getUserByPhoneNumber(users, d) ELSE 0
         id  == Len(callSessions) + 1
     IN  /\ callSessions' = Append(callSessions,
                              [userId |-> uid, phoneNumber |-> d, status |-> "active",
                               transcript |-> ""])
         /\ activeSessions' = setContext(activeSessions, id, NewContext)
         /\ last' = Ret("createSession", "created")
  /\ UNCHANGED <<users, appointments, beyContexts, pend>>

(***************************************************************************)
(* executeToolCall (voiceAgent.ts:173-400), one action per tool.  s is the  *)
(* session whose ConversationContext the call runs with.                   *)
(***************************************************************************)
\* a length check that lets short numbers through
tooFewDigitsNever(d) == FALSE

\* digitsOnly.length > 10, digitsOnly.length < 10
tooManyDigits(d) == Len(d) > PhoneDigits

tooFewDigits(d) == Len(d) < PhoneDigits

\* phoneNumber.replace(...) on undefined: a TypeError, which nothing in
\* executeToolCall catches (voiceAgent.ts:183-184)
replaceThrows(phone) == phone = PhoneAbsent

\* a call that throws has result "error": it returns no text
identify_user(s, phone) ==
  /\ s \in DOMAIN activeSessions
  /\ LET d   == digitsOnly(phone)
         old == getUserByPhoneNumber(users, d)
         uid == IF old = 0 THEN Len(users) + 1 ELSE old
     IN  IF replaceThrows(phone)
         THEN /\ last' = Ret("identify_user", "error")
              /\ UNCHANGED <<users, callSessions, activeSessions>>
         ELSE IF tooManyDigits(d) \/ tooFewDigits(d)
         THEN /\ last' = Ret("identify_user",
                             IF tooManyDigits(d) THEN "too_many_digits"
                             ELSE "too_few_digits")
              /\ UNCHANGED <<users, callSessions, activeSessions>>
         ELSE /\ users' = IF old = 0 THEN createUser(users, d, "") ELSE users
              /\ activeSessions' =
                   [activeSessions EXCEPT ![s].userId = uid,
                                          ![s].phoneNumber = d,
                                          ![s].userName = users'[uid].name]
              /\ callSessions' = updateCallSession(callSessions, s, uid, d)
              /\ last' = Ret("identify_user",
                             IF old = 0 THEN "created" ELSE "welcome_back")
  /\ UNCHANGED <<appointments, beyContexts, pend>>

\* identify_user when storage.updateCallSession rejects (voiceAgent.ts:224):
\* the user is created if there was none and the context is written
\* (voiceAgent.ts:200, 220-222) before the call that throws
identify_userUpdateFails(s, phone) ==
  /\ s \in DOMAIN activeSessions
  /\ ~replaceThrows(phone)
  /\ ~tooManyDigits(digitsOnly(phone))
  /\ ~tooFewDigits(digitsOnly(phone))
  /\ LET d   == digitsOnly(phone)
         old == getUserByPhoneNumber(users, d)
         uid == IF old = 0 THEN Len(users) + 1 ELSE old
     IN  /\ users' = IF old = 0 THEN createUser(users, d, "") ELSE users
         /\ activeSessions' =
              [activeSessions EXCEPT ![s].userId = uid,
                                     ![s].phoneNumber = d,
                                     ![s].userName = users'[uid].name]
         /\ last' = Ret("identify_user", "error")
  /\ UNCHANGED <<appointments, callSessions, beyContexts, pend>>

\* a booking check that never finds the slot taken
isSlotTakenNever(booked, d, t) == FALSE

\* bookedSlots.some(s => s.date === date && s.time === time)
isSlotTaken(booked, d, t) == \E b \in booked : b.date = d /\ b.time = t

\* a catalog check that accepts every (date, time)
isValidSlotAlways(d, t) == TRUE

\* availableSlots.some(s => s.date === date && s.time === time)
isValidSlot(d, t) ==
  \E i \in DOMAIN availableSlots :
    availableSlots[i].date = d /\ availableSlots[i].time = t

\* the branch book_appointment takes (voiceAgent.ts:254-275)
bookResult(ctx, appts, d, t) ==
  IF ctx.userId = 0 THEN "not_identified"
  ELSE IF isSlotTaken(getBookedSlots(appts), d, t) THEN "slot_taken"
  ELSE IF ~isValidSlot(d, t) THEN "invalid_slot"
  ELSE "booked"

book_appointment(s, d, t) ==
  /\ s \in DOMAIN activeSessions
  /\ LET ctx == activeSessions[s]
         r   == bookResult(ctx, appointments, d, t)
     IN  /\ r = "booked" => Len(appointments) < MaxAppts
         /\ appointments' =
              IF r = "booked"
              THEN createAppointment(appointments,
                     [userId |-> ctx.userId, date |-> d, time |-> t,
                      description |-> "", status |-> "scheduled"])
              ELSE appointments
         /\ last' = Ret("book_appointment", r)
  /\ UNCHANGED <<users, callSessions, activeSessions, beyContexts, pend>>

\* the branch cancel_appointment takes (voiceAgent.ts:310-331)
cancelResult(ctx, appts, id) ==
  IF ctx.userId = 0 THEN "not_identified"
  ELSE IF id \notin DOMAIN appts THEN "not_found"
  ELSE IF appts[id].userId # ctx.userId THEN "not_owner"
  ELSE IF appts[id].status = "cancelled" THEN "already_cancelled"
  ELSE "cancelled"

cancel_appointment(s, id) ==
  /\ s \in DOMAIN activeSessions
  /\ LET ctx == activeSessions[s]
         r   == cancelResult(ctx, appointments, id)
     IN  /\ appointments' = IF r = "cancelled"
                            THEN cancelAppointment(appointments, id)
                            ELSE appointments
         /\ last' = Ret("cancel_appointment", r)
  /\ UNCHANGED <<users, callSessions, activeSessions, beyContexts, pend>>

\* newDate || appointment.date, newTime || appointment.time
targetDate(appt, newDate) == IF newDate # "" THEN newDate ELSE appt.date

targetTime(appt, newTime) == IF newTime # <<>> THEN newTime ELSE appt.time

\* bookedSlots.some(s => s.date === targetDate && s.time === targetTime &&
\*   !(s.date === appointment.date && s.time === appointment.time))
isTargetTaken(booked, appt, d, t) ==
  \E b \in booked :
    /\ b.date = d /\ b.time = t
    /\ ~(b.date = appt.date /\ b.time = appt.time)

\* the branch modify_appointment takes (voiceAgent.ts:339-377)
modifyResult(ctx, appts, id, newDate, newTime) ==
  IF ctx.userId = 0 THEN "not_identified"
  ELSE IF newDate = "" /\ newTime = <<>> THEN "nothing_to_change"
  ELSE IF id \notin DOMAIN appts THEN "not_found"
  ELSE IF appts[id].userId # ctx.userId THEN "not_owner"
  ELSE IF isTargetTaken(getBookedSlots(appts), appts[id],
                        targetDate(appts[id], newDate),
                        targetTime(appts[id], newTime)) THEN "slot_taken"
  ELSE "rescheduled"

modify_appointment(s, id, newDate, newTime) ==
  /\ s \in DOMAIN activeSessions
  /\ LET ctx == activeSessions[s]
         r   == modifyResult(ctx, appointments, id, newDate, newTime)
     IN  /\ appointments' =
              IF r = "rescheduled"
              THEN updateAppointment(appointments, id,
                     targetDate(appointments[id], newDate),
                     targetTime(appointments[id], newTime), "scheduled")
              ELSE appointments
         /\ last' = Ret("modify_appointment", r)
  /\ UNCHANGED <<users, callSessions, activeSessions, beyContexts, pend>>

\* `${s.date}-${s.time}`
slotKey(d, t) == dateChars(d) \o <<"-">> \o t

\* new Set(bookedSlots.map(s => `${s.date}-${s.time}`))
bookedSet(booked) == {slotKey(b.date, b.time) : b \in booked}

\* fetch_slots (voiceAgent.ts:231-251): the catalog without the slots whose
\* key is in the booked set, filtered by the date when one is given, in
\* catalog order
RECURSIVE filterSlots(_, _, _)
filterSlots(slots, keys, dateFilter) ==
  IF slots = <<>> THEN <<>>
  ELSE LET h == Head(slots)
           keep == /\ slotKey(h.date, h.time) \notin keys
                   /\ (dateFilter # "" => h.date = dateFilter)
       IN  (IF keep THEN <<h>> ELSE <<>>)
             \o filterSlots(Tail(slots), keys, dateFilter)

\* the result text names at most this many slots (available.slice(0, 5))
NamedSlots == 5

\* the text names the first five available slots and counts the rest
fetch_slots(s, dateFilter) ==
  /\ s \in DOMAIN activeSessions
  /\ \E available \in {filterSlots(availableSlots,
                                   bookedSet(getBookedSlots(appointments)),
                                   dateFilter)} :
       last' = IF available = <<>> THEN Ret("fetch_slots", "no_slots")
               ELSE [Ret("fetch_slots", "slots") EXCEPT
                       !.slots = SubSeq(available, 1,
                                        IF Len(available) > NamedSlots
                                        THEN NamedSlots ELSE Len(available)),
                       !.count = IF Len(available) > NamedSlots
                                 THEN Len(available) - NamedSlots ELSE 0]
  /\ UNCHANGED <<users, appointments, callSessions, activeSessions, beyContexts, pend>>

\* retrieve_appointments (voiceAgent.ts:289-307)
retrieve_appointments(s) ==
  /\ s \in DOMAIN activeSessions
  /\ LET ctx == activeSessions[s]
         ids == getAppointmentsByUser(appointments, ctx.userId)
         active == {i \in DOMAIN ids : appointments[ids[i]].status # "cancelled"}
     IN  last' = Ret("retrieve_appointments",
                     IF ctx.userId = 0 THEN "not_identified"
                     ELSE IF active = {} THEN "no_appointments" ELSE "appointments")
  /\ UNCHANGED <<users, appointments, callSessions, activeSessions, beyContexts, pend>>

\* an end_conversation that forgets the caller
end_conversationForgetting(s) ==
  /\ s \in DOMAIN activeSessions
  /\ last' = [Ret("end_conversation", "goodbye") EXCEPT !.endCall = TRUE]
  /\ activeSessions' = [activeSessions EXCEPT ![s].userId = 0,
                                              ![s].phoneNumber = <<>>,
                                              ![s].userName = ""]
  /\ UNCHANGED <<users, appointments, callSessions, beyContexts, pend>>

\* end_conversation (voiceAgent.ts:389-393) and the default branch (395-396)
end_conversation(s) ==
  /\ s \in DOMAIN activeSessions
  /\ last' = [Ret("end_conversation", "goodbye") EXCEPT !.endCall = TRUE]
  /\ UNCHANGED <<users, appointments, callSessions, activeSessions, beyContexts, pend>>

unknown_tool(s) ==
  /\ s \in DOMAIN activeSessions
  /\ last' = Ret("unknown_tool", "unknown_tool")
  /\ UNCHANGED <<users, appointments, callSessions, activeSessions, beyContexts, pend>>

(***************************************************************************)
(* Spec: the tool executor over a store with two identified users.         *)
(* The initial states are states the program reaches by POST /api/sessions *)
(* and identify_user: sessions 1 and 2 have identified the users 1 and 2,  *)
(* session 3 has identified nobody.  In the second initial state a fourth  *)
(* session, of user 2, has ended and its summary has created a pending     *)
(* appointment.  Every tool call runs to completion before the next.       *)
(***************************************************************************)
TwoUsers == << [phoneNumber |-> Phone1Plain, name |-> ""],
               [phoneNumber |-> Phone2Plain, name |-> ""] >>

SessionRow(us, uid, st) ==
  [userId |-> uid, status |-> st, transcript |-> "",
   phoneNumber |-> IF uid = 0 THEN <<>> ELSE us[uid].phoneNumber]

ThreeSessions == << SessionRow(TwoUsers, 1, "active"),
                    SessionRow(TwoUsers, 2, "active"),
                    SessionRow(TwoUsers, 0, "active") >>

ThreeContexts == << UserContext(TwoUsers, 1), UserContext(TwoUsers, 2), NewContext >>

ToolSessions == DOMAIN ThreeContexts

InitIdentified ==
  /\ toolCalls = <<>>
  /\ turn = <<>>
  /\ beyUserAgentCache = <<>>
  /\ beyAgents = <<>>
  /\ beyCalls = <<>>
  /\ users = TwoUsers
  /\ activeSessions = ThreeContexts
  /\ beyContexts = <<>>
  /\ pend = <<>>
  /\ last = NoLast
  /\ \/ /\ callSessions = ThreeSessions
        /\ appointments = <<>>
     \/ /\ callSessions = Append(ThreeSessions, SessionRow(TwoUsers, 2, "ended"))
        /\ appointments = << [userId |-> 2, date |-> Date29, time |-> Time1100,
                              description |-> VoiceCallDescription, status |-> "pending"] >>

\* appointment ids a tool call may name: every row, and one that does not exist
ApptIdInputs == 1 .. (MaxAppts + 1)

BookDates == {Date29, ""}
BookTimes == {Time1100, Time0100, Time1000, <<>>}
ModifyDates == {Date29, ""}
ModifyTimes == {Time1100, Time0100, <<>>}

ToolNext ==
  \/ \E s \in ToolSessions, d \in BookDates, t \in BookTimes : book_appointment(s, d, t) /\ UNCHANGED <<turnVars, callVars>>
  \/ \E s \in ToolSessions, id \in ApptIdInputs : cancel_appointment(s, id) /\ UNCHANGED <<turnVars, callVars>>
  \/ \E s \in ToolSessions, id \in ApptIdInputs, d \in ModifyDates, t \in ModifyTimes :
       modify_appointment(s, id, d, t) /\ UNCHANGED <<turnVars, callVars>>
  \/ \E s \in ToolSessions, d \in BookDates : fetch_slots(s, d) /\ UNCHANGED <<turnVars, callVars>>
  \/ \E s \in ToolSessions : retrieve_appointments(s) /\ UNCHANGED <<turnVars, callVars>>
  \/ \E s \in ToolSessions : end_conversation(s) /\ UNCHANGED <<turnVars, callVars>>
  \/ \E s \in ToolSessions : unknown_tool(s) /\ UNCHANGED <<turnVars, callVars>>

Spec == InitIdentified /\ [][ToolNext]_vars

\* SpecArgs: the tool executor called with arguments that are missing (the
\* schema's required fields are a request to the language model, nothing
\* checks them before executeToolCall, voiceAgent.ts:443, 458) or malformed
ArgPhones == {PhoneAbsent, PhoneShort, Phone1Dashed}
ArgApptIds == 0 .. (MaxAppts + 1)
ArgTimes == {Time1100, <<>>}

ArgsNext ==
  \/ \E s \in ToolSessions, phone \in ArgPhones : identify_user(s, phone) /\ UNCHANGED <<turnVars, callVars>>
  \/ \E s \in ToolSessions, d \in BookDates, t \in ArgTimes : book_appointment(s, d, t) /\ UNCHANGED <<turnVars, callVars>>
  \/ \E s \in ToolSessions, id \in ArgApptIds : cancel_appointment(s, id) /\ UNCHANGED <<turnVars, callVars>>
  \/ \E s \in ToolSessions, id \in ArgApptIds, d \in ModifyDates, t \in ArgTimes :
       modify_appointment(s, id, d, t) /\ UNCHANGED <<turnVars, callVars>>
  \/ \E s \in ToolSessions, d \in BookDates : fetch_slots(s, d) /\ UNCHANGED <<turnVars, callVars>>
  \/ \E s \in ToolSessions : retrieve_appointments(s) /\ UNCHANGED <<turnVars, callVars>>
  \/ \E s \in ToolSessions : end_conversation(s) /\ UNCHANGED <<turnVars, callVars>>
  \/ \E s \in ToolSessions : unknown_tool(s) /\ UNCHANGED <<turnVars, callVars>>

SpecArgs == InitIdentified /\ [][ArgsNext]_vars

\* the tools that change or read the booked set, with the arguments of a
\* modification free text as the schema leaves them (voiceAgent.ts:114-138)
SlotTimes == {Time1100, Time0100}
FreeDates == {DateYM, Date29, ""}
FreeTimes == {Time29_1100, Time1100, <<>>}

SlotsNext ==
  \/ \E s \in ToolSessions, t \in SlotTimes : book_appointment(s, Date29, t) /\ UNCHANGED <<turnVars, callVars>>
  \/ \E s \in ToolSessions, id \in ApptIdInputs : cancel_appointment(s, id) /\ UNCHANGED <<turnVars, callVars>>
  \/ \E s \in ToolSessions, id \in ApptIdInputs, d \in FreeDates, t \in FreeTimes :
       modify_appointment(s, id, d, t) /\ UNCHANGED <<turnVars, callVars>>
  \/ \E s \in ToolSessions, d \in BookDates : fetch_slots(s, d) /\ UNCHANGED <<turnVars, callVars>>

SpecSlots == InitIdentified /\ [][SlotsNext]_vars

(***************************************************************************)
(* generateCallSummary (voiceAgent.ts:553-793).  data is the JSON the      *)
(* extraction model returned: phoneNumber, userName, appointmentRequests   *)
(* and cancellationRequests; an absent field is <<>> or "".                *)
(***************************************************************************)
\* extractedData.phoneNumber?.replace(/\D/g, '') || session?.phoneNumber
extractedPhone(data, cs, s) ==
  IF digitsOnly(data.phoneNumber) # <<>> THEN digitsOnly(data.phoneNumber)
  ELSE IF s \in DOMAIN cs THEN cs[s].phoneNumber ELSE <<>>

\* extractedData.userName || user?.name
extractedName(data, us, uid) ==
  IF data.userName # "" THEN data.userName
  ELSE IF uid \in DOMAIN us THEN us[uid].name ELSE ""

\* userName of the return value: extractedName || undefined in the try
\* block (voiceAgent.ts:756); user?.name || undefined in the catch block,
\* where nothing was extracted (voiceAgent.ts:790)
returnedName(data, us, uid) == extractedName(data, us, uid)

\* the user the summary works for, and the users table it leaves
resolveUser(us, uid, phone, name) ==
  IF uid = 0 /\ phone # <<>> /\ Len(phone) >= PhoneDigits
  THEN LET existing == getUserByPhoneNumber(us, phone)
       IN  IF existing # 0
           THEN [users |-> IF name # "" /\ us[existing].name = ""
                           THEN updateUser(us, existing, name) ELSE us,
                 uid   |-> existing]
           ELSE [users |-> createUser(us, phone, name), uid |-> Len(us) + 1]
  ELSE IF uid # 0 /\ name # "" /\ us[uid].name = ""
       THEN [users |-> updateUser(us, uid, name), uid |-> uid]
       ELSE [users |-> us, uid |-> uid]

\* the rows getAppointmentsByUser returned
rowsOfUser(appts, uid) ==
  [k \in DOMAIN getAppointmentsByUser(appts, uid) |->
     appts[getAppointmentsByUser(appts, uid)[k]]]

\* existingAppts.some(a => same date, same normalized time, not cancelled)
isDuplicate(existing, req) ==
  \E k \in DOMAIN existing :
    /\ existing[k].date = req.date
    /\ normalizeTime(existing[k].time) = normalizeTime(req.time)
    /\ existing[k].status # "cancelled"

\* time.match is not a function: normalizeTime throws for a time that is
\* no string (voiceAgent.ts:633)
normalizeThrows(t) == t = TimeNumber

\* a guard that is content with a date or a time
hasDateOrTime(req) == req.date # "" \/ req.time # <<>>

\* if (apptRequest.date && apptRequest.time) (voiceAgent.ts:674)
hasDateAndTime(req) == req.date # "" /\ req.time # <<>>

\* the loop over appointmentRequests: the table and the count it leaves,
\* whether normalizeTime threw on the way, and the number of requests whose
\* createAppointment rejected.  rejects: the store refuses the inserts of
\* this run; the inner try logs the rejection and the loop goes on
\* (voiceAgent.ts:688-701)
RECURSIVE createRequested(_, _, _, _, _, _)
createRequested(appts, existing, uid, reqs, n, rejects) ==
  IF reqs = <<>>
  THEN [appointments |-> appts, created |-> n, failed |-> FALSE, rejected |-> 0]
  ELSE LET req == Head(reqs)
           row == [userId |-> uid, date |-> req.date, time |-> req.time,
                   description |-> VoiceCallDescription, status |-> "pending"]
       IN  IF ~hasDateAndTime(req)
           THEN createRequested(appts, existing, uid, Tail(reqs), n, rejects)
           ELSE IF normalizeThrows(req.time)
           THEN [appointments |-> appts, created |-> n, failed |-> TRUE, rejected |-> 0]
           ELSE IF isDuplicate(existing, req)
           THEN createRequested(appts, existing, uid, Tail(reqs), n, rejects)
           ELSE IF rejects
           THEN [createRequested(appts, existing, uid, Tail(reqs), n, rejects)
                   EXCEPT !.rejected = @ + 1]
           ELSE createRequested(createAppointment(appts, row),
                                Append(existing, row), uid, Tail(reqs), n + 1, rejects)

\* userAppts.find(a => same date, same normalized time, not cancelled), over
\* the rows of the whole table, whoever owns them; 0 if none
matchingApptAny(snap, ids, req) ==
  LET hit(k) == /\ snap[k].date = req.date
                /\ normalizeTime(snap[k].time) = normalizeTime(req.time)
  IN  IF \E k \in DOMAIN snap : hit(k)
      THEN CHOOSE k \in DOMAIN snap : hit(k) /\ \A j \in DOMAIN snap : hit(j) => k <= j
      ELSE 0

\* userAppts.find(a => same date, same normalized time, not cancelled), over
\* the rows as they were read before the loop; 0 if none
matchingAppt(snap, ids, req) ==
  LET hit(k) == /\ snap[ids[k]].date = req.date
                /\ normalizeTime(snap[ids[k]].time) = normalizeTime(req.time)
                /\ snap[ids[k]].status # "cancelled"
  IN  IF \E k \in DOMAIN ids : hit(k)
      THEN ids[CHOOSE k \in DOMAIN ids : hit(k) /\ \A j \in DOMAIN ids : hit(j) => k <= j]
      ELSE 0

\* the loop over cancellationRequests: the table it leaves, and whether
\* normalizeTime threw on the way
RECURSIVE cancelRequested(_, _, _, _)
cancelRequested(appts, snap, ids, reqs) ==
  IF reqs = <<>> THEN [appointments |-> appts, failed |-> FALSE]
  ELSE IF normalizeThrows(Head(reqs).time)
  THEN [appointments |-> appts, failed |-> TRUE]
  ELSE LET m == matchingAppt(snap, ids, Head(reqs))
       IN  cancelRequested(IF m # 0 THEN updateAppointmentStatus(appts, m, "cancelled")
                           ELSE appts,
                           snap, ids, Tail(reqs))

\* an endCallSession that leaves the status as it is
endCallSessionSkipped(cs, id, transcript) == cs

\* storage.endCallSession: status and, when one is passed, transcript; the
\* query builder leaves a column whose value is undefined out of the SET
\* clause, so a call without transcript keeps the stored one
endCallSession(cs, id, transcript) ==
  IF id \in DOMAIN cs
  THEN [cs EXCEPT ![id].status = "ended",
                  ![id].transcript = IF transcript # "" THEN transcript ELSE @]
  ELSE cs

\* ${transcript || "No transcript available"} (voiceAgent.ts:577)
promptTranscript(cs, s, transcript) ==
  IF transcript # "" THEN transcript ELSE "No transcript available"

\* the try block: what the summary of session s leaves in the store
summaryApplied(us, appts, cs, s, data, rejects) ==
  LET uid0    == IF s \in DOMAIN cs THEN cs[s].userId ELSE 0
      r       == resolveUser(us, uid0, extractedPhone(data, cs, s),
                             extractedName(data, us, uid0))
      booked  == IF r.uid # 0
                 THEN createRequested(appts, rowsOfUser(appts, r.uid), r.uid,
                                      data.appointmentRequests, 0, rejects)
                 ELSE [appointments |-> appts, created |-> 0, failed |-> FALSE,
                       rejected |-> 0]
      after   == IF r.uid # 0 /\ ~booked.failed
                 THEN cancelRequested(booked.appointments, booked.appointments,
                                      getAppointmentsByUser(booked.appointments, r.uid),
                                      data.cancellationRequests)
                 ELSE [appointments |-> booked.appointments, failed |-> booked.failed]
  IN  [users |-> r.users, appointments |-> after.appointments,
       created |-> booked.created, uid |-> r.uid, failed |-> after.failed,
       rejected |-> booked.rejected]

\* what JSON.parse leaves of a response that is no JSON (voiceAgent.ts:626)
MalformedData ==
  [phoneNumber |-> <<>>, userName |-> "", appointmentRequests |-> <<>>,
   cancellationRequests |-> <<>>]

\* outcome "llm_error": the extraction call throws and the catch block ends
\* the session without touching users or appointments; outcome "malformed":
\* the response is no JSON and the run goes on with MalformedData; a throw
\* while the requests are applied reaches the same catch block, with what
\* was written before it left in the store; outcome "store_error": every
\* storage.createAppointment of the run rejects
generateCallSummary(s, transcript, outcome, data) ==
  \E used \in {IF outcome \in {"ok", "store_error"} THEN data ELSE MalformedData} :
  \E r \in {summaryApplied(users, appointments, callSessions, s, used,
                            outcome = "store_error")} :
  \E sent \in {promptTranscript(callSessions, s, transcript)} :
      IF outcome = "llm_error"
      THEN /\ callSessions' = endCallSession(callSessions, s, transcript)
           /\ last' = [Ret("generateCallSummary", "fallback") EXCEPT
                         !.input = <<s, used>>, !.prompt = sent,
                         !.userName = returnedName(MalformedData, users,
                                                   callSessions[s].userId),
                         !.phoneNumber = callSessions[s].phoneNumber]
           /\ UNCHANGED <<users, appointments>>
      ELSE /\ Len(r.appointments) <= MaxAppts
           /\ users' = r.users
           /\ appointments' = r.appointments
           /\ callSessions' = endCallSession(callSessions, s, transcript)
           /\ last' = IF r.failed
                      THEN [Ret("generateCallSummary", "fallback") EXCEPT
                              !.input = <<s, used>>, !.prompt = sent,
                              !.userName = returnedName(MalformedData, r.users, r.uid),
                              !.phoneNumber = callSessions[s].phoneNumber]
                      ELSE [Ret("generateCallSummary", "ok") EXCEPT
                              !.count = r.created, !.input = <<s, used>>,
                              !.prompt = sent,
                              !.userName = returnedName(used, users,
                                                        callSessions[s].userId),
                              !.phoneNumber = extractedPhone(used, callSessions, s)]

(***************************************************************************)
(* POST /api/sessions/:id/end (routes.ts:341-355).                         *)
(***************************************************************************)
endSession(s, transcript, outcome, data) ==
  /\ s \in DOMAIN callSessions
  /\ generateCallSummary(s, transcript, outcome, data)
  /\ activeSessions' = deleteContext(activeSessions, s)
  /\ UNCHANGED <<beyContexts, pend>>

(***************************************************************************)
(* SpecSummary: sessions are ended, and their summaries written, between   *)
(* the tool calls of the other sessions.                                   *)
(***************************************************************************)
Req(d, t) == [date |-> d, time |-> t]

Extracted(phone, name, reqs, cancels) ==
  [phoneNumber |-> phone, userName |-> name, appointmentRequests |-> reqs,
   cancellationRequests |-> cancels]

\* a booking of the 11:00 slot; the same slot asked for twice, once in
\* lower case, by a caller who gives number and name; a request without a
\* date and a cancellation; nothing extracted
ExtractedInputs ==
  { Extracted(<<>>, "", <<Req(Date29, Time1100)>>, <<>>),
    Extracted(Phone1Dashed, "Alice",
              <<Req(Date29, Time1100l), Req(Date29, Time1100)>>, <<>>),
    Extracted(<<>>, "Bob", <<Req("", Time0100)>>, <<Req(Date29, Time1100l)>>),
    Extracted(<<>>, "", <<>>, <<>>) }

SummaryOutcomes == {"ok", "llm_error"}

SummaryNext ==
  \/ \E s \in ToolSessions, o \in SummaryOutcomes, data \in ExtractedInputs :
       endSession(s, "", o, data) /\ UNCHANGED <<turnVars, callVars>>
  \/ \E s \in ToolSessions : book_appointment(s, Date29, Time1100) /\ UNCHANGED <<turnVars, callVars>>
  \/ \E s \in ToolSessions, id \in ApptIdInputs : cancel_appointment(s, id) /\ UNCHANGED <<turnVars, callVars>>
  \/ \E s \in ToolSessions, id \in ApptIdInputs : modify_appointment(s, id, "", Time1100) /\ UNCHANGED <<turnVars, callVars>>

SpecSummary == InitIdentified /\ [][SummaryNext]_vars

(***************************************************************************)
(* SpecResummary: the sessions are ended, some of them more than once, and *)
(* appointments are cancelled in between.                                  *)
(***************************************************************************)
\* a booking and the cancellation of the same slot; a booking of the slot
\* in lower case; a cancellation alone, by a caller who gives a number; a
\* booking followed by a request whose time is a number
ResummaryInputs ==
  { Extracted(<<>>, "", <<Req(Date29, Time1100)>>, <<Req(Date29, Time1100l)>>),
    Extracted(<<>>, "", <<Req(Date29, Time1100l)>>, <<>>),
    Extracted(Phone2Plain, "", <<>>, <<Req(Date29, Time1100)>>),
    Extracted(<<>>, "", <<Req(Date29, Time0100), Req(Date29, TimeNumber)>>, <<>>) }

ResummaryOutcomes == {"ok", "llm_error", "malformed", "store_error"}

ResummaryNext ==
  \/ \E s \in ToolSessions, o \in ResummaryOutcomes, data \in ResummaryInputs :
       endSession(s, "", o, data) /\ UNCHANGED <<turnVars, callVars>>
  \/ \E s \in ToolSessions, id \in ApptIdInputs : cancel_appointment(s, id) /\ UNCHANGED <<turnVars, callVars>>

SpecResummary == InitIdentified /\ [][ResummaryNext]_vars

(***************************************************************************)
(* SpecTranscript: the sessions are ended with and without a transcript in *)
(* the request body, some of them more than once.                          *)
(***************************************************************************)
\* req.body.transcript: absent, or one of two texts
TranscriptInputs == {"", "caller books", "caller cancels"}

\* what the extraction returns: a booking of the 11:00 slot, or nothing
TranscriptData ==
  { Extracted(<<>>, "", <<Req(Date29, Time1100)>>, <<>>),
    Extracted(<<>>, "", <<>>, <<>>) }

TranscriptNext ==
  \/ \E s \in ToolSessions, tr \in TranscriptInputs, o \in ResummaryOutcomes,
          data \in TranscriptData :
       endSession(s, tr, o, data) /\ UNCHANGED <<turnVars, callVars>>
  \/ \E s \in ToolSessions, id \in ApptIdInputs : cancel_appointment(s, id) /\ UNCHANGED <<turnVars, callVars>>

SpecTranscript == InitIdentified /\ [][TranscriptNext]_vars

(***************************************************************************)
(* SpecCreate: the summarizer alone, on extractions whose requests lack a  *)
(* date or a time, repeat a slot, or come with a cancellation.             *)
(***************************************************************************)
\* a caller who gives number and name, asks once without a date and twice
\* for the 11:00 slot; a caller who asks once without a time, once for
\* 1:00 PM, and cancels the 11:00 slot
CreateInputs ==
  { Extracted(Phone1Dashed, "Alice",
              <<Req("", Time0100), Req(Date29, Time1100l), Req(Date29, Time1100)>>,
              <<>>),
    Extracted(<<>>, "",
              <<Req(Date29, <<>>), Req(Date29, Time0100)>>,
              <<Req(Date29, Time1100)>>) }

CreateNext ==
  \/ \E s \in ToolSessions, o \in ResummaryOutcomes, data \in CreateInputs :
       endSession(s, "", o, data) /\ UNCHANGED <<turnVars, callVars>>

SpecCreate == InitIdentified /\ [][CreateNext]_vars

(***************************************************************************)
(* SpecDenote: the summarizer creates appointments whose time is extracted *)
(* with and without zero padding, and the sessions that are still open ask *)
(* for the free slots and book.                                            *)
(***************************************************************************)
\* "1:00 PM", the form the extraction prompt asks for (voiceAgent.ts:586),
\* for the catalog label "01:00 PM"
Time100u == <<"1", ":", "0", "0", " ", "P", "M">>

DenoteInputs ==
  { Extracted(<<>>, "", <<Req(Date29, Time100u)>>, <<>>),
    Extracted(<<>>, "", <<Req(Date29, Time0100)>>, <<>>) }

DenoteNext ==
  \/ \E s \in ToolSessions, data \in DenoteInputs :
       endSession(s, "", "ok", data) /\ UNCHANGED <<turnVars, callVars>>
  \/ \E s \in ToolSessions : fetch_slots(s, Date29) /\ UNCHANGED <<turnVars, callVars>>
  \/ \E s \in ToolSessions, t \in SlotTimes :
       book_appointment(s, Date29, t) /\ UNCHANGED <<turnVars, callVars>>
  \/ \E s \in ToolSessions, id \in ApptIdInputs :
       cancel_appointment(s, id) /\ UNCHANGED <<turnVars, callVars>>

SpecDenote == InitIdentified /\ [][DenoteNext]_vars

(***************************************************************************)
(* SpecEndRace: POST /api/sessions/:id/end requested twice for one session *)
(* with one transcript, the two summarizer runs interleaving at their      *)
(* store calls.  A run is suspended after getAppointmentsByUser            *)
(* (voiceAgent.ts:668), after each createAppointment (689) and before the  *)
(* cancellations; pend[r] is what run r holds in its local variables: the  *)
(* resolved user, existingAppts, the requests its loop has yet to visit,   *)
(* newAppointmentsCreated, and the ids of the rows it has created.         *)
(***************************************************************************)
EndRuns == {1, 2}

\* the two requests carry the same session id and the same transcript
sameRequest(p, r, s, data) ==
  \A q \in DOMAIN p \ {r} : p[q].session = s /\ p[q].data = data

\* the run up to the return of getAppointmentsByUser
summaryRead(r, s, data) ==
  /\ r \notin DOMAIN pend
  /\ s \in DOMAIN callSessions
  /\ sameRequest(pend, r, s, data)
  /\ \E u \in {resolveUser(users, callSessions[s].userId,
                             extractedPhone(data, callSessions, s),
                             extractedName(data, users, callSessions[s].userId))} :
       /\ users' = u.users
       /\ pend' = setContext(pend, r,
            [pc |-> "create", session |-> s, data |-> data, user |-> u.uid,
             existing |-> IF u.uid # 0 THEN rowsOfUser(appointments, u.uid) ELSE <<>>,
             reqs |-> IF u.uid # 0 THEN data.appointmentRequests ELSE <<>>,
             created |-> 0, made |-> {}])
  /\ UNCHANGED <<appointments, callSessions, activeSessions, beyContexts, last>>

\* one pass of the loop over appointmentRequests
summaryCreate(r) ==
  /\ r \in DOMAIN pend
  /\ pend[r].pc = "create"
  /\ pend[r].reqs # <<>>
  /\ LET req == Head(pend[r].reqs)
         row == [userId |-> pend[r].user, date |-> req.date, time |-> req.time,
                 description |-> VoiceCallDescription, status |-> "pending"]
     IN  IF ~hasDateAndTime(req) \/ isDuplicate(pend[r].existing, req)
         THEN /\ pend' = [pend EXCEPT ![r].reqs = Tail(@)]
              /\ UNCHANGED appointments
         ELSE /\ Len(appointments) < MaxAppts
              /\ appointments' = createAppointment(appointments, row)
              /\ pend' = [pend EXCEPT ![r].reqs = Tail(@),
                                      ![r].existing = Append(@, row),
                                      ![r].created = @ + 1,
                                      ![r].made = @ \cup {Len(appointments) + 1}]
  /\ UNCHANGED <<users, callSessions, activeSessions, beyContexts, last>>

\* the run from the cancellations on, and the route's
\* activeSessions.delete after it (routes.ts:347)
summaryFinish(r) ==
  /\ r \in DOMAIN pend
  /\ pend[r].pc = "create"
  /\ pend[r].reqs = <<>>
  /\ \E c \in {IF pend[r].user # 0
                THEN cancelRequested(appointments, appointments,
                       getAppointmentsByUser(appointments, pend[r].user),
                       pend[r].data.cancellationRequests)
                ELSE [appointments |-> appointments, failed |-> FALSE]} :
       /\ appointments' = c.appointments
       /\ last' = [Ret("generateCallSummary", "ok") EXCEPT
                     !.count = pend[r].created,
                     !.input = <<pend[r].session, pend[r].data>>,
                     !.prompt = promptTranscript(callSessions, pend[r].session, ""),
                     !.userName = returnedName(pend[r].data, users,
                                               callSessions[pend[r].session].userId),
                     !.phoneNumber = extractedPhone(pend[r].data, callSessions,
                                                    pend[r].session)]
  /\ callSessions' = endCallSession(callSessions, pend[r].session, "")
  /\ activeSessions' = deleteContext(activeSessions, pend[r].session)
  /\ pend' = [pend EXCEPT ![r].pc = "done"]
  /\ UNCHANGED <<users, beyContexts>>

\* one request, and two for a slot written with and without zero padding
\* by a caller who gives a number
EndRaceData ==
  { Extracted(<<>>, "", <<Req(Date29, Time0100)>>, <<Req(Date29, Time1100)>>),
    Extracted(Phone1Dashed, "", <<Req(Date29, Time100u), Req(Date29, Time0100)>>, <<>>) }

EndRaceNext ==
  \/ \E r \in EndRuns, s \in ToolSessions, data \in EndRaceData :
       summaryRead(r, s, data) /\ UNCHANGED <<turnVars, callVars>>
  \/ \E r \in EndRuns : summaryCreate(r) /\ UNCHANGED <<turnVars, callVars>>
  \/ \E r \in EndRuns : summaryFinish(r) /\ UNCHANGED <<turnVars, callVars>>

SpecEndRace == InitIdentified /\ [][EndRaceNext]_vars

(***************************************************************************)
(* SpecIdentify: sessions are opened on an empty store and identify_user   *)
(* is called in them with well-formed and malformed numbers.               *)
(***************************************************************************)
InitEmpty ==
  /\ toolCalls = <<>>
  /\ turn = <<>>
  /\ beyUserAgentCache = <<>>
  /\ beyAgents = <<>>
  /\ beyCalls = <<>>
  /\ users = <<>>
  /\ appointments = <<>>
  /\ callSessions = <<>>
  /\ activeSessions = <<>>
  /\ beyContexts = <<>>
  /\ pend = <<>>
  /\ last = NoLast

SessionIds == 1 .. MaxSessions

IdentifyNext ==
  \/ \E phone \in {<<>>, Phone1Dashed} : createSession(phone) /\ UNCHANGED <<turnVars, callVars>>
  \/ \E s \in SessionIds, phone \in PhoneInputs : identify_user(s, phone) /\ UNCHANGED <<turnVars, callVars>>

SpecIdentify == InitEmpty /\ [][IdentifyNext]_vars

(***************************************************************************)
(* SpecRace: two sessions whose tool calls interleave at their store       *)
(* calls.  identify_user is suspended between getUserByPhoneNumber and     *)
(* createUser (voiceAgent.ts:196, 200), book_appointment between           *)
(* getBookedSlots and createAppointment (voiceAgent.ts:263, 277).  pend[s] *)
(* is what the suspended call of session s has read.                       *)
(***************************************************************************)
\* identify_user up to the return of getUserByPhoneNumber
identifyLookup(s, phone) ==
  /\ s \in DOMAIN activeSessions
  /\ s \notin DOMAIN pend
  /\ LET d == digitsOnly(phone)
     IN  IF replaceThrows(phone)
         THEN /\ last' = Ret("identify_user", "error")
              /\ UNCHANGED pend
         ELSE IF tooManyDigits(d) \/ tooFewDigits(d)
         THEN /\ last' = Ret("identify_user",
                             IF tooManyDigits(d) THEN "too_many_digits"
                             ELSE "too_few_digits")
              /\ UNCHANGED pend
         ELSE /\ pend' = setContext(pend, s,
                           [tool |-> "identify_user", phoneNumber |-> d,
                            user |-> getUserByPhoneNumber(users, d),
                            date |-> "", time |-> <<>>, booked |-> {}])
              /\ UNCHANGED last
  /\ UNCHANGED <<users, appointments, callSessions, activeSessions, beyContexts>>

\* identify_user from there on: createUser if the lookup found nobody, then
\* the context and the session record.  An insert the unique constraint
\* refuses throws, and the call ends without a result.
identifyFinish(s) ==
  /\ s \in DOMAIN pend
  /\ pend[s].tool = "identify_user"
  /\ LET d   == pend[s].phoneNumber
         old == pend[s].user
         uid == IF old = 0 THEN Len(users) + 1 ELSE old
     IN  IF old = 0 /\ uniqueViolation(users, d)
         THEN /\ last' = Ret("identify_user", "error")
              /\ UNCHANGED <<users, callSessions, activeSessions>>
         ELSE /\ users' = IF old = 0 THEN createUser(users, d, "") ELSE users
              /\ activeSessions' =
                   [activeSessions EXCEPT ![s].userId = uid,
                                          ![s].phoneNumber = d,
                                          ![s].userName = users'[uid].name]
              /\ callSessions' = updateCallSession(callSessions, s, uid, d)
              /\ last' = Ret("identify_user",
                             IF old = 0 THEN "created" ELSE "welcome_back")
  /\ pend' = deleteContext(pend, s)
  /\ UNCHANGED <<appointments, beyContexts>>

\* book_appointment up to the return of getBookedSlots
bookRead(s, d, t) ==
  /\ s \in DOMAIN activeSessions
  /\ s \notin DOMAIN pend
  /\ IF activeSessions[s].userId = 0
     THEN /\ last' = Ret("book_appointment", "not_identified")
          /\ UNCHANGED pend
     ELSE /\ pend' = setContext(pend, s,
                       [tool |-> "book_appointment", phoneNumber |-> <<>>,
                        user |-> activeSessions[s].userId,
                        date |-> d, time |-> t,
                        booked |-> getBookedSlots(appointments)])
          /\ UNCHANGED last
  /\ UNCHANGED <<users, appointments, callSessions, activeSessions, beyContexts>>

\* book_appointment from there on: the checks against what was read, then
\* createAppointment
bookWrite(s) ==
  /\ s \in DOMAIN pend
  /\ pend[s].tool = "book_appointment"
  /\ LET d == pend[s].date
         t == pend[s].time
         r == IF isSlotTaken(pend[s].booked, d, t) THEN "slot_taken"
              ELSE IF ~isValidSlot(d, t) THEN "invalid_slot"
              ELSE "booked"
     IN  /\ r = "booked" => Len(appointments) < MaxAppts
         /\ appointments' =
              IF r = "booked"
              THEN createAppointment(appointments,
                     [userId |-> pend[s].user, date |-> d, time |-> t,
                      description |-> "", status |-> "scheduled"])
              ELSE appointments
         /\ last' = Ret("book_appointment", r)
  /\ pend' = deleteContext(pend, s)
  /\ UNCHANGED <<users, callSessions, activeSessions, beyContexts>>

RaceSessions == 1 .. 2

InitRace ==
  /\ toolCalls = <<>>
  /\ turn = <<>>
  /\ beyUserAgentCache = <<>>
  /\ beyAgents = <<>>
  /\ beyCalls = <<>>
  /\ users = <<>>
  /\ appointments = <<>>
  /\ callSessions = [s \in RaceSessions |-> SessionRow(<<>>, 0, "active")]
  /\ activeSessions = [s \in RaceSessions |-> NewContext]
  /\ beyContexts = <<>>
  /\ pend = <<>>
  /\ last = NoLast

RacePhones == {Phone1Dashed, Phone1Parens, Phone2Plain, PhoneShort}

RaceNext ==
  \/ \E s \in RaceSessions, phone \in RacePhones : identifyLookup(s, phone) /\ UNCHANGED <<turnVars, callVars>>
  \/ \E s \in RaceSessions : identifyFinish(s) /\ UNCHANGED <<turnVars, callVars>>
  \/ \E s \in RaceSessions, t \in {Time1100, Time1000} : bookRead(s, Date29, t) /\ UNCHANGED <<turnVars, callVars>>
  \/ \E s \in RaceSessions : bookWrite(s) /\ UNCHANGED <<turnVars, callVars>>

SpecRace == InitRace /\ [][RaceNext]_vars

(***************************************************************************)
(* The avatar provider's paths (routes.ts): POST /api/bey/tool-execute,    *)
(* the tool calls of POST /api/bey/webhook and POST /api/users/lookup.     *)
(* They keep one BeyContext per call id in beyContexts.                    *)
(***************************************************************************)
\* beyContexts.get(call_id) || { callId: call_id, agentId: "" }
getBeyContext(m, c) == IF c \in DOMAIN m THEN m[c] ELSE NewContext

\* look the number up; create the user if there is none, else store the
\* name if one is given and the user has none (routes.ts:739-747, 961-969,
\* 1151-1159)
findOrCreateUser(us, d, name) ==
  LET old == getUserByPhoneNumber(us, d)
  IN  IF old = 0
      THEN [users |-> createUser(us, d, name), uid |-> Len(us) + 1, isNew |-> TRUE]
      ELSE [users |-> IF name # "" /\ us[old].name = ""
                      THEN updateUser(us, old, name) ELSE us,
            uid |-> old, isNew |-> FALSE]

\* tool-execute identify_user: any number with at least one digit
bey_identify_user(c, phone, name) ==
  /\ LET d == digitsOnly(phone)
     IN  IF d = <<>>
         THEN /\ last' = Ret("bey_identify_user", "invalid_phone")
              /\ UNCHANGED <<users, beyContexts>>
         ELSE \E r \in {findOrCreateUser(users, d, name)} :
                /\ users' = r.users
                /\ beyContexts' = setContext(beyContexts, c,
                     [userId |-> r.uid, phoneNumber |-> d,
                      userName |-> r.users[r.uid].name])
                /\ last' = Ret("bey_identify_user",
                               IF r.isNew THEN "created" ELSE "welcome_back")
  /\ UNCHANGED <<appointments, callSessions, activeSessions, pend>>

\* tool-execute set_user_name
bey_set_user_name(c, name) ==
  /\ LET ctx == getBeyContext(beyContexts, c)
     IN  IF ctx.userId = 0
         THEN /\ last' = Ret("bey_set_user_name", "not_identified")
              /\ UNCHANGED <<users, beyContexts>>
         ELSE IF name = ""
         THEN /\ last' = Ret("bey_set_user_name", "missing_name")
              /\ UNCHANGED <<users, beyContexts>>
         ELSE /\ users' = updateUser(users, ctx.userId, name)
              /\ beyContexts' = setContext(beyContexts, c,
                                           [ctx EXCEPT !.userName = name])
              /\ last' = Ret("bey_set_user_name", "saved")
  /\ UNCHANGED <<appointments, callSessions, activeSessions, pend>>

\* the checks both provider paths make before they book: no catalog check
beyBookResult(ctx, appts, d, t) ==
  IF ctx.userId = 0 THEN "not_identified"
  ELSE IF d = "" \/ t = <<>> THEN "missing_date_time"
  ELSE IF isSlotTaken(getBookedSlots(appts), d, t) THEN "slot_taken"
  ELSE "booked"

\* tool-execute book_appointment: status confirmed
bey_book_appointment(c, d, t) ==
  /\ LET ctx == getBeyContext(beyContexts, c)
         r   == beyBookResult(ctx, appointments, d, t)
     IN  /\ r = "booked" => Len(appointments) < MaxAppts
         /\ appointments' =
              IF r = "booked"
              THEN createAppointment(appointments,
                     [userId |-> ctx.userId, date |-> d, time |-> t,
                      description |-> GeneralDescription, status |-> "confirmed"])
              ELSE appointments
         /\ last' = Ret("bey_book_appointment", r)
  /\ UNCHANGED <<users, callSessions, activeSessions, beyContexts, pend>>

\* tool-execute cancel_appointment
bey_cancel_appointment(c, id) ==
  /\ LET ctx == getBeyContext(beyContexts, c)
         r   == IF ctx.userId = 0 THEN "not_identified"
                ELSE IF id \notin DOMAIN appointments THEN "not_found"
                ELSE IF appointments[id].userId # ctx.userId THEN "not_owner"
                ELSE IF appointments[id].status = "cancelled" THEN "already_cancelled"
                ELSE "cancelled"
     IN  /\ appointments' = IF r = "cancelled"
                            THEN cancelAppointment(appointments, id)
                            ELSE appointments
         /\ last' = Ret("bey_cancel_appointment", r)
  /\ UNCHANGED <<users, callSessions, activeSessions, beyContexts, pend>>

\* webhook identify_user: at least ten digits
webhook_identify_user(c, phone, name) ==
  /\ LET d == digitsOnly(phone)
     IN  IF d = <<>> \/ Len(d) < PhoneDigits
         THEN /\ last' = Ret("webhook_identify_user", "invalid_phone")
              /\ UNCHANGED <<users, beyContexts>>
         ELSE \E r \in {findOrCreateUser(users, d, name)} :
                /\ users' = r.users
                /\ beyContexts' = setContext(beyContexts, c,
                     [userId |-> r.uid, phoneNumber |-> d,
                      userName |-> r.users[r.uid].name])
                /\ last' = Ret("webhook_identify_user",
                               IF r.isNew THEN "created" ELSE "welcome_back")
  /\ UNCHANGED <<appointments, callSessions, activeSessions, pend>>

\* webhook book_appointment: status scheduled
webhook_book_appointment(c, d, t) ==
  /\ LET ctx == getBeyContext(beyContexts, c)
         r   == beyBookResult(ctx, appointments, d, t)
     IN  /\ r = "booked" => Len(appointments) < MaxAppts
         /\ appointments' =
              IF r = "booked"
              THEN createAppointment(appointments,
                     [userId |-> ctx.userId, date |-> d, time |-> t,
                      description |-> GeneralDescription, status |-> "scheduled"])
              ELSE appointments
         /\ last' = Ret("webhook_book_appointment", r)
  /\ UNCHANGED <<users, callSessions, activeSessions, beyContexts, pend>>

\* webhook cancel_appointment: the owner is compared only if the context
\* has a user
webhook_cancel_appointment(c, id) ==
  /\ LET ctx == getBeyContext(beyContexts, c)
         r   == IF id \notin DOMAIN appointments THEN "not_found"
                ELSE IF ctx.userId # 0 /\ appointments[id].userId # ctx.userId
                THEN "not_owner"
                ELSE "cancelled"
     IN  /\ appointments' = IF r = "cancelled"
                            THEN updateAppointmentStatus(appointments, id, "cancelled")
                            ELSE appointments
         /\ last' = Ret("webhook_cancel_appointment", r)
  /\ UNCHANGED <<users, callSessions, activeSessions, beyContexts, pend>>

\* POST /api/users/lookup; c = 0 when the request carries no callId
users_lookup(phone, name, c) ==
  /\ LET d == digitsOnly(phone)
     IN  IF d = <<>> \/ Len(d) < PhoneDigits
         THEN /\ last' = Ret("users_lookup", "invalid_phone")
              /\ UNCHANGED <<users, beyContexts>>
         ELSE \E r \in {findOrCreateUser(users, d, name)} :
                /\ users' = r.users
                /\ beyContexts' =
                     IF c # 0
                     THEN setContext(beyContexts, c,
                            [userId |-> r.uid, phoneNumber |-> d,
                             userName |-> r.users[r.uid].name])
                     ELSE beyContexts
                /\ last' = Ret("users_lookup",
                               IF r.isNew THEN "created" ELSE "found")
  /\ UNCHANGED <<appointments, callSessions, activeSessions, pend>>

(***************************************************************************)
(* POST /api/bey/call (routes.ts:564-668) and createBeyAgentWithContext    *)
(* (routes.ts:71-188).  The provider answers every request.  An agent is   *)
(* the list of appointments its system prompt carries; the default agent   *)
(* of getOrCreateBeyAgent, whose prompt carries none, has the id 0.        *)
(***************************************************************************)
\* video calls the provider may hold
MaxCalls == 2

\* appointments.filter(a => a.status !== "cancelled") and the line the
\* prompt has for each (routes.ts:85-90)
RECURSIVE appointmentContext(_, _)
appointmentContext(appts, ids) ==
  IF ids = <<>> THEN <<>>
  ELSE LET a == appts[Head(ids)]
       IN  (IF a.status # "cancelled"
            THEN << [date |-> a.date, time |-> a.time,
                     description |-> IF a.description # "" THEN a.description
                                     ELSE GeneralDescription] >>
            ELSE <<>>) \o appointmentContext(appts, Tail(ids))

\* the appointments the prompt of an agent carries
agentPrompt(agents, id) == IF id \in DOMAIN agents THEN agents[id] ELSE <<>>

\* the agent of a call for a known user: the cached one, else a new one if
\* the user has appointments, else the default agent (routes.ts:591-606)
agentFor(cache, agents, d, ids) ==
  IF d \in DOMAIN cache THEN cache[d]
  ELSE IF ids # <<>> THEN Len(agents) + 1
  ELSE 0

bey_call(phone) ==
  /\ Len(beyCalls) < MaxCalls
  /\ LET d     == digitsOnly(phone)
         uid   == IF Len(d) >= PhoneDigits THEN getUserByPhoneNumber(users, d) ELSE 0
         ids   == IF uid # 0 THEN getAppointmentsByUser(appointments, uid) ELSE <<>>
         agent == IF uid # 0 THEN agentFor(beyUserAgentCache, beyAgents, d, ids) ELSE 0
     IN  /\ beyAgents' = IF agent = Len(beyAgents) + 1
                         THEN Append(beyAgents, appointmentContext(appointments, ids))
                         ELSE beyAgents
         /\ beyUserAgentCache' = IF agent = Len(beyAgents) + 1
                                 THEN setContext(beyUserAgentCache, d, agent)
                                 ELSE beyUserAgentCache
         /\ beyCalls' = Append(beyCalls, [agentId |-> agent])
         /\ beyContexts' = setContext(beyContexts, Len(beyCalls) + 1,
                                      [userId |-> 0, phoneNumber |-> <<>>,
                                       userName |-> ""])
         /\ last' = [Ret("bey_call", "created") EXCEPT !.input = <<phone>>]
  /\ UNCHANGED <<users, appointments, callSessions, activeSessions, pend>>

\* POST /api/bey/call/:id/end (routes.ts:671-684)
bey_call_end(c) ==
  /\ beyContexts' = deleteContext(beyContexts, c)
  /\ last' = Ret("bey_call_end", "success")
  /\ UNCHANGED <<users, appointments, callSessions, activeSessions, pend, callVars>>

(***************************************************************************)
(* SpecCall: video calls are created, for known and unknown numbers,       *)
(* between the tool calls that book, cancel and move appointments.         *)
(***************************************************************************)
\* the session of user 2, whose number the calls are started with
CallSessions == {2}

CallPhones == {Phone2Plain, PhoneShort, <<>>}

CallNext ==
  \/ \E phone \in CallPhones : bey_call(phone) /\ UNCHANGED turnVars
  \/ \E c \in 1 .. MaxCalls : bey_call_end(c) /\ UNCHANGED turnVars
  \/ \E s \in CallSessions :
       book_appointment(s, Date29, Time1100) /\ UNCHANGED <<turnVars, callVars>>
  \/ \E s \in CallSessions, id \in ApptIdInputs :
       cancel_appointment(s, id) /\ UNCHANGED <<turnVars, callVars>>
  \/ \E s \in CallSessions, id \in ApptIdInputs :
       modify_appointment(s, id, "", Time0100) /\ UNCHANGED <<turnVars, callVars>>

SpecCall == InitIdentified /\ [][CallNext]_vars

(***************************************************************************)
(* SpecBey: the calls of one avatar conversation, and cancel and modify    *)
(* tool calls of the voice sessions, against the store of InitIdentified.  *)
(***************************************************************************)
BeyCalls == {1}

BeyPhones == {Phone1Dashed, PhoneShort, <<>>}

BeyNames == {"", "Alice", "Bob"}

BeyNext ==
  \/ \E c \in BeyCalls, phone \in BeyPhones, name \in {"", "Alice"} :
       bey_identify_user(c, phone, name) /\ UNCHANGED <<turnVars, callVars>>
  \/ \E c \in BeyCalls, name \in BeyNames : bey_set_user_name(c, name) /\ UNCHANGED <<turnVars, callVars>>
  \/ \E c \in BeyCalls, t \in {Time1100, <<>>} : bey_book_appointment(c, Date29, t) /\ UNCHANGED <<turnVars, callVars>>
  \/ \E c \in BeyCalls, id \in ApptIdInputs : bey_cancel_appointment(c, id) /\ UNCHANGED <<turnVars, callVars>>
  \/ \E c \in BeyCalls, phone \in {Phone1Parens, PhoneShort}, name \in {"", "Bob"} :
       webhook_identify_user(c, phone, name) /\ UNCHANGED <<turnVars, callVars>>
  \/ \E c \in BeyCalls : webhook_book_appointment(c, Date29, Time1100) /\ UNCHANGED <<turnVars, callVars>>
  \/ \E c \in BeyCalls, id \in ApptIdInputs : webhook_cancel_appointment(c, id) /\ UNCHANGED <<turnVars, callVars>>
  \/ \E phone \in {Phone1Plain, PhoneShort}, name \in {"", "Alice"}, c \in {0, 1} :
       users_lookup(phone, name, c) /\ UNCHANGED <<turnVars, callVars>>
  \/ \E s \in ToolSessions, id \in ApptIdInputs : cancel_appointment(s, id) /\ UNCHANGED <<turnVars, callVars>>
  \/ \E s \in ToolSessions, id \in ApptIdInputs : modify_appointment(s, id, "", Time0100) /\ UNCHANGED <<turnVars, callVars>>

SpecBey == InitIdentified /\ [][BeyNext]_vars

(***************************************************************************)
(* processVoiceMessage (voiceAgent.ts:402-551) as POST /api/voice runs it  *)
(* (routes.ts:358-416): one conversation turn of session s, one action per *)
(* stretch of the generator between two awaited calls.  turn[s].pc names   *)
(* the call the turn is suspended at:                                      *)
(*   "llm"     the first completion call (425)                             *)
(*   "tools"   the head of the loop over message.tool_calls (439)          *)
(*   "log"     storage.createToolCall (452)                                *)
(*   "exec"    executeToolCall (458)                                       *)
(*   "stream"  the audio completion call and its stream (490, 516)         *)
(*   "returned" the generator is finished                                  *)
(*   "closed"  the route has written its last line (406-410)               *)
(* turn[s].plan is message.tool_calls, turn[s].calls what the loop has yet *)
(* to run, turn[s].events what the generator has yielded, and turn[s].prev *)
(* the terminal event of the session's turn before this one.               *)
(* turn[s].late tells that the session's record had the status ended when  *)
(* the turn was submitted.  The route holds the context object in a local  *)
(* variable (routes.ts:374) and stores it again when the generator is      *)
(* finished (routes.ts:407); turn[s].detached tells that                   *)
(* activeSessions.delete has removed the session from the map while the    *)
(* turn was running: activeSessions[s] is then the object the route still  *)
(* holds, and the map is sessionMap.                                       *)
(***************************************************************************)
\* the most messages a context holds when a turn starts
MaxMessages == 2

\* one entry of message.tool_calls: the tool's name, its arguments, and
\* whether function.arguments is JSON
Invoke(name, phone, d, t, parses) ==
  [name |-> name, phone |-> phone, date |-> d, time |-> t, parses |-> parses]

\* an event the generator yields; done carries endCall
Ev(type) == [type |-> type, endCall |-> FALSE]

Terminal(e) == e.type \in {"done", "error"}

\* a loop that takes the entries from the end
nextCallLast(calls) == calls[Len(calls)]

\* for (const toolCall of message.tool_calls): the entry the loop is at
nextCall(calls) == Head(calls)

\* an endCall that is the endCall of the tool that ran last
mergeEndCallLatest(endCall, shouldEnd) == shouldEnd

\* if (shouldEnd) endCall = true (voiceAgent.ts:465)
mergeEndCall(endCall, shouldEnd) == endCall \/ shouldEnd

\* the turn of session s is running
inTurn(t, s) == s \in DOMAIN t /\ t[s].pc \notin {"returned", "closed"}

\* no request of session s is being served: the model serves the requests
\* of a session one after the other
noRequest(t, s) == s \in DOMAIN t => t[s].pc = "closed"

\* book_appointment entries a sequence of tool calls holds
RECURSIVE booksIn(_)
booksIn(calls) ==
  IF calls = <<>> THEN 0
  ELSE (IF Head(calls).name = "book_appointment" THEN 1 ELSE 0) + booksIn(Tail(calls))

\* the bookings the running turns have yet to execute
RECURSIVE pendingBooks(_, _)
pendingBooks(t, ss) ==
  IF ss = {} THEN 0
  ELSE LET s == CHOOSE x \in ss : TRUE
       IN  (IF inTurn(t, s) THEN booksIn(t[s].calls) ELSE 0) + pendingBooks(t, ss \ {s})

\* a route that starts every turn with a new context
getOrCreateFresh(ctxs, s) == NewContext

\* activeSessions.get(sessionId), or a new context (routes.ts:374-381)
getOrCreate(ctxs, s) == IF s \in DOMAIN ctxs THEN ctxs[s] ELSE NewContext

\* a catch block that reports the turn as done
caughtAsDone(t, s) ==
  [t EXCEPT ![s].pc = "returned",
            ![s].events = Append(@, [type |-> "done", endCall |-> t[s].endCall])]

\* routes.ts:373-381 and voiceAgent.ts:416-418: the route gets or creates the
\* context, the generator yields user_transcript and appends the utterance
voiceStart(s) ==
  /\ s \in DOMAIN callSessions
  /\ noRequest(turn, s)
  /\ \E context \in {getOrCreate(activeSessions, s)} :
       /\ Len(context.messages) <= MaxMessages
       /\ activeSessions' =
            setContext(activeSessions, s,
                       [context EXCEPT !.messages = Append(@, "user")])
  /\ turn' = setContext(turn, s,
                        [pc |-> "llm", plan |-> <<>>, calls |-> <<>>, content |-> "",
                         endCall |-> FALSE, events |-> <<Ev("user_transcript")>>,
                         late |-> callSessions[s].status = "ended",
                         detached |-> FALSE,
                         prev |-> IF s \in DOMAIN turn
                                  THEN turn[s].events[Len(turn[s].events)].type
                                  ELSE "none"])
  /\ UNCHANGED <<users, appointments, callSessions, beyContexts, pend, last, toolCalls>>

\* yield { type: "done", endCall } after the reply, if there is one, has been
\* appended (voiceAgent.ts:541-545)
finished(t, s, reply) ==
  [t EXCEPT ![s].pc = "returned",
            ![s].events = Append(@, [type |-> "done", endCall |-> t[s].endCall])]

\* a turn that appends its reply whether or not there is one
pushReplyAlways(ctxs, s, reply) == [ctxs EXCEPT ![s].messages = Append(@, "assistant")]

\* if (assistantResponse) context.messages.push(...) (voiceAgent.ts:541-543)
pushReply(ctxs, s, reply) ==
  IF reply # "" THEN [ctxs EXCEPT ![s].messages = Append(@, "assistant")] ELSE ctxs

\* voiceAgent.ts:425-436, 515: the first completion returns tool calls, a
\* text, or neither
llmReturns(s, plan, content) ==
  /\ inTurn(turn, s)
  /\ turn[s].pc = "llm"
  /\ Len(appointments) + pendingBooks(turn, DOMAIN turn) + booksIn(plan) <= MaxAppts
  /\ IF plan # <<>>
     THEN /\ turn' = [turn EXCEPT ![s].pc = "tools", ![s].plan = plan,
                                  ![s].calls = plan, ![s].content = content]
          /\ UNCHANGED activeSessions
     ELSE IF content # ""
     THEN /\ turn' = [turn EXCEPT ![s].pc = "stream", ![s].content = content]
          /\ UNCHANGED activeSessions
     ELSE /\ turn' = finished(turn, s, "")
          /\ UNCHANGED activeSessions
  /\ UNCHANGED <<users, appointments, callSessions, beyContexts, pend, last, toolCalls>>

\* catch (error) { yield { type: "error" } } (voiceAgent.ts:547-550)
caught(t, s) ==
  [t EXCEPT ![s].pc = "returned", ![s].events = Append(@, Ev("error"))]

\* voiceAgent.ts:439-450: JSON.parse of the arguments, then tool_call_start
toolStart(s) ==
  /\ inTurn(turn, s)
  /\ turn[s].pc = "tools"
  /\ turn' = IF nextCall(turn[s].calls).parses
             THEN [turn EXCEPT ![s].pc = "log",
                               ![s].events = Append(@, Ev("tool_call_start"))]
             ELSE caught(turn, s)
  /\ UNCHANGED <<users, appointments, callSessions, activeSessions, beyContexts, pend,
                 last, toolCalls>>

\* storage.createToolCall (voiceAgent.ts:452-456, storage.ts:146-149)
createToolCall(s) ==
  /\ inTurn(turn, s)
  /\ turn[s].pc = "log"
  /\ toolCalls' = Append(toolCalls, [sessionId |-> s,
                                     toolName |-> nextCall(turn[s].calls).name])
  /\ turn' = [turn EXCEPT ![s].pc = "exec"]
  /\ UNCHANGED <<users, appointments, callSessions, activeSessions, beyContexts, pend,
                 last>>

\* switch (toolName) of executeToolCall (voiceAgent.ts:181-397)
executeToolCall(s, c) ==
  CASE c.name = "identify_user"    -> identify_user(s, c.phone)
    [] c.name = "book_appointment" -> book_appointment(s, c.date, c.time)
    [] c.name = "fetch_slots"      -> fetch_slots(s, c.date)
    [] c.name = "end_conversation" -> end_conversation(s)
    [] OTHER                       -> unknown_tool(s)

\* voiceAgent.ts:458-478: the tool runs with the context of the session, its
\* endCall is merged, tool_call_end is yielded and the loop goes on; a tool
\* that throws takes the turn to the catch block
execTool(s) ==
  /\ inTurn(turn, s)
  /\ turn[s].pc = "exec"
  /\ executeToolCall(s, nextCall(turn[s].calls))
  /\ turn' = IF last'.result = "error" THEN caught(turn, s)
             ELSE [turn EXCEPT
                     ![s].pc = IF Tail(turn[s].calls) = <<>> THEN "stream" ELSE "tools",
                     ![s].calls = Tail(@),
                     ![s].endCall = mergeEndCall(@, last'.endCall),
                     ![s].events = Append(@, Ev("tool_call_end"))]
  /\ UNCHANGED toolCalls

\* executeToolCall throws at the last store call of identify_user, and the
\* turn goes to the catch block (voiceAgent.ts:458, 547-550)
execToolUpdateFails(s) ==
  /\ inTurn(turn, s)
  /\ turn[s].pc = "exec"
  /\ nextCall(turn[s].calls).name = "identify_user"
  /\ identify_userUpdateFails(s, nextCall(turn[s].calls).phone)
  /\ turn' = caught(turn, s)
  /\ UNCHANGED toolCalls

\* an awaited call rejects: the first completion, createToolCall, a store
\* call of the tool before it has written, the audio completion or its stream
callFails(s) ==
  /\ inTurn(turn, s)
  /\ turn[s].pc \in {"llm", "log", "exec", "stream"}
  /\ turn' = caught(turn, s)
  /\ UNCHANGED <<users, appointments, callSessions, activeSessions, beyContexts, pend,
                 last, toolCalls>>

\* voiceAgent.ts:500-512, 527-538: a chunk of the stream with a transcript
streamChunk(s) ==
  /\ inTurn(turn, s)
  /\ turn[s].pc = "stream"
  /\ turn[s].events[Len(turn[s].events)].type # "transcript"
  /\ turn' = [turn EXCEPT ![s].events = Append(@, Ev("transcript"))]
  /\ UNCHANGED <<users, appointments, callSessions, activeSessions, beyContexts, pend,
                 last, toolCalls>>

\* voiceAgent.ts:514, 541-545: the stream ends; after tool calls the reply is
\* what was streamed, without them the text of the first completion
streamEnds(s) ==
  /\ inTurn(turn, s)
  /\ turn[s].pc = "stream"
  /\ \E reply \in {IF turn[s].plan = <<>> THEN turn[s].content
                   ELSE IF turn[s].events[Len(turn[s].events)].type = "transcript"
                        THEN "text" ELSE ""} :
       /\ activeSessions' = pushReply(activeSessions, s, reply)
       /\ turn' = finished(turn, s, reply)
  /\ UNCHANGED <<users, appointments, callSessions, beyContexts, pend, last, toolCalls>>

\* routes.ts:406-410: the route stores the context it holds and ends the
\* response
voiceFinish(s) ==
  /\ s \in DOMAIN turn
  /\ turn[s].pc = "returned"
  /\ activeSessions' = setContext(activeSessions, s, activeSessions[s])
  /\ turn' = [turn EXCEPT ![s].pc = "closed", ![s].detached = FALSE]
  /\ UNCHANGED <<users, appointments, callSessions, beyContexts, pend, last, toolCalls>>

\* the entries of the activeSessions map
sessionMap(ctxs, t) ==
  [s \in {k \in DOMAIN ctxs : ~(k \in DOMAIN t /\ t[k].detached)} |-> ctxs[s]]

\* POST /api/sessions/:id/end (routes.ts:341-355) when turns are running:
\* activeSessions.delete takes the session out of the map, and the route of
\* a turn that is running goes on with the object it holds
endSessionInTurn(s, transcript, outcome, data) ==
  /\ s \in DOMAIN callSessions
  /\ generateCallSummary(s, transcript, outcome, data)
  /\ IF s \in DOMAIN turn /\ turn[s].pc # "closed"
     THEN /\ turn' = [turn EXCEPT ![s].detached = TRUE]
          /\ UNCHANGED activeSessions
     ELSE /\ activeSessions' = deleteContext(activeSessions, s)
          /\ UNCHANGED turn
  /\ UNCHANGED <<beyContexts, pend, toolCalls>>

\* the session that takes turns: the one that is not identified
TurnSessions == {3}

\* what the first completion asks for: identification and a booking; the end
\* of the call and a look at the slots; a call whose arguments are no JSON
\* after one that runs
TurnPlans ==
  { << Invoke("identify_user", Phone1Dashed, "", <<>>, TRUE),
       Invoke("book_appointment", <<>>, Date29, Time1100, TRUE) >>,
    << Invoke("end_conversation", <<>>, "", <<>>, TRUE),
       Invoke("fetch_slots", <<>>, Date29, <<>>, TRUE) >>,
    << Invoke("fetch_slots", <<>>, "", <<>>, TRUE),
       Invoke("book_appointment", <<>>, Date29, Time0100, FALSE) >>,
    <<>> }

\* a step of the turn of session s
turnStep(s) ==
  \/ \E plan \in TurnPlans, content \in {"", "text"} :
       llmReturns(s, plan, content) /\ UNCHANGED callVars
  \/ toolStart(s) /\ UNCHANGED callVars
  \/ createToolCall(s) /\ UNCHANGED callVars
  \/ execTool(s) /\ UNCHANGED callVars
  \/ callFails(s) /\ UNCHANGED callVars
  \/ streamChunk(s) /\ UNCHANGED callVars
  \/ streamEnds(s) /\ UNCHANGED callVars
  \/ voiceFinish(s) /\ UNCHANGED callVars

TurnNext ==
  \/ \E s \in TurnSessions : voiceStart(s) /\ UNCHANGED callVars
  \/ \E s \in TurnSessions, plan \in TurnPlans, content \in {"", "text"} :
       llmReturns(s, plan, content) /\ UNCHANGED callVars
  \/ \E s \in TurnSessions : toolStart(s) /\ UNCHANGED callVars
  \/ \E s \in TurnSessions : createToolCall(s) /\ UNCHANGED callVars
  \/ \E s \in TurnSessions : execTool(s) /\ UNCHANGED callVars
  \/ \E s \in TurnSessions : callFails(s) /\ UNCHANGED callVars
  \/ \E s \in TurnSessions : streamChunk(s) /\ UNCHANGED callVars
  \/ \E s \in TurnSessions : streamEnds(s) /\ UNCHANGED callVars
  \/ \E s \in TurnSessions : voiceFinish(s) /\ UNCHANGED callVars

SpecTurn == InitIdentified /\ [][TurnNext]_vars

\* every awaited call of a turn returns or fails, and the route goes on
\* when the generator has returned
SpecTurnLive == SpecTurn /\ \A s \in TurnSessions : WF_vars(turnStep(s))

(***************************************************************************)
(* SpecTurnFail: the turns of a session in which the store may reject the  *)
(* last call of identify_user.                                             *)
(***************************************************************************)
\* what the first completion asks for: identification alone, with a
\* well-formed and with a short number, or with a look at the slots
TurnFailPlans ==
  { << Invoke("identify_user", Phone1Dashed, "", <<>>, TRUE) >>,
    << Invoke("identify_user", PhoneShort, "", <<>>, TRUE) >>,
    << Invoke("identify_user", Phone2Plain, "", <<>>, TRUE),
       Invoke("fetch_slots", <<>>, Date29, <<>>, TRUE) >> }

TurnFailNext ==
  \/ \E s \in TurnSessions : voiceStart(s) /\ UNCHANGED callVars
  \/ \E s \in TurnSessions, plan \in TurnFailPlans, content \in {"", "text"} :
       llmReturns(s, plan, content) /\ UNCHANGED callVars
  \/ \E s \in TurnSessions : toolStart(s) /\ UNCHANGED callVars
  \/ \E s \in TurnSessions : createToolCall(s) /\ UNCHANGED callVars
  \/ \E s \in TurnSessions : execTool(s) /\ UNCHANGED callVars
  \/ \E s \in TurnSessions : execToolUpdateFails(s) /\ UNCHANGED callVars
  \/ \E s \in TurnSessions : callFails(s) /\ UNCHANGED callVars
  \/ \E s \in TurnSessions : streamChunk(s) /\ UNCHANGED callVars
  \/ \E s \in TurnSessions : streamEnds(s) /\ UNCHANGED callVars
  \/ \E s \in TurnSessions : voiceFinish(s) /\ UNCHANGED callVars

SpecTurnFail == InitIdentified /\ [][TurnFailNext]_vars

(***************************************************************************)
(* SpecEndTurn: the session that takes turns is ended once, before, while  *)
(* or after a turn of it runs.                                             *)
(***************************************************************************)
\* what the extraction returns for the session: nothing to book or cancel
EndTurnData == {Extracted(<<>>, "", <<>>, <<>>)}

\* what the first completion asks for: identification and a booking
EndTurnPlans ==
  { << Invoke("identify_user", Phone1Dashed, "", <<>>, TRUE),
       Invoke("book_appointment", <<>>, Date29, Time0100, TRUE) >> }

EndTurnNext ==
  \/ \E s \in TurnSessions : voiceStart(s) /\ UNCHANGED callVars
  \/ \E s \in TurnSessions, plan \in EndTurnPlans :
       llmReturns(s, plan, "") /\ UNCHANGED callVars
  \/ \E s \in TurnSessions : toolStart(s) /\ UNCHANGED callVars
  \/ \E s \in TurnSessions : createToolCall(s) /\ UNCHANGED callVars
  \/ \E s \in TurnSessions : execTool(s) /\ UNCHANGED callVars
  \/ \E s \in TurnSessions : callFails(s) /\ UNCHANGED callVars
  \/ \E s \in TurnSessions : streamChunk(s) /\ UNCHANGED callVars
  \/ \E s \in TurnSessions : streamEnds(s) /\ UNCHANGED callVars
  \/ \E s \in TurnSessions : voiceFinish(s) /\ UNCHANGED callVars
  \/ \E s \in TurnSessions, data \in EndTurnData :
       /\ callSessions[s].status = "active"
       /\ endSessionInTurn(s, "", "ok", data) /\ UNCHANGED callVars

SpecEndTurn == InitIdentified /\ [][EndTurnNext]_vars


(***************************************************************************)
(* Claims about the tool executor, checked under Spec.                     *)
(***************************************************************************)
\* row i is active (not cancelled) and occupies (d, t)
Holds(appts, i, d, t) ==
  /\ i \in DOMAIN appts
  /\ appts[i].status # "cancelled"
  /\ appts[i].date = d
  /\ appts[i].time = t

\* C3: when book_appointment runs while an active appointment of any user
\* holds the target (date, time), the set of appointments is unchanged and
\* an identified caller is given the conflict message (a caller who is not
\* identified is given the identify-first guidance instead).
C3_BookHeldSlotCreatesNothing ==
  [][\A s \in ToolSessions, d \in BookDates, t \in BookTimes :
       (/\ last'.op = "book_appointment"
        /\ \E i \in DOMAIN appointments : Holds(appointments, i, d, t)
        /\ book_appointment(s, d, t))
       => /\ appointments' = appointments
          /\ activeSessions[s].userId # 0 => last'.result = "slot_taken"]_vars

\* C3 witness: one user holds the slot, booked by book_appointment, and a
\* booking of that slot has just been answered with the conflict message.
C3_Witness ==
  /\ last = Ret("book_appointment", "slot_taken")
  /\ Len(appointments) = 1
  /\ appointments[1].status = "scheduled"

\* C4: book_appointment adds a row only when the context has an identified
\* user and the requested (date, time) is a catalog slot; a successful call
\* appends exactly one row, owned by the context's user, with the requested
\* date and time and status scheduled; every other call adds none.
C4_BookCreatesOnlyValid ==
  [][\A s \in ToolSessions, d \in BookDates, t \in BookTimes :
       (last'.op = "book_appointment" /\ book_appointment(s, d, t))
       => \/ /\ last'.result # "booked"
             /\ appointments' = appointments
          \/ /\ last'.result = "booked"
             /\ activeSessions[s].userId # 0
             /\ \E i \in DOMAIN availableSlots : availableSlots[i] = Slot(d, t)
             /\ appointments' = Append(appointments,
                  [userId |-> activeSessions[s].userId, date |-> d, time |-> t,
                   description |-> "", status |-> "scheduled"])]_vars

\* C4 witness: a booking has succeeded and its row is in the table.
C4_Witness ==
  /\ last = Ret("book_appointment", "booked")
  /\ appointments # <<>>
  /\ appointments[Len(appointments)].status = "scheduled"

\* C8: cancel_appointment by the owner leaves the appointment cancelled and
\* every other appointment as it was, and returns a text result; run on an
\* appointment that is already cancelled it changes nothing and returns the
\* already-cancelled text.
C8_CancelIdempotent ==
  [][\A s \in ToolSessions, id \in ApptIdInputs :
       (/\ last'.op = "cancel_appointment"
        /\ id \in DOMAIN appointments
        /\ activeSessions[s].userId = appointments[id].userId
        /\ cancel_appointment(s, id))
       => /\ appointments' = [appointments EXCEPT ![id].status = "cancelled"]
          /\ last'.result \in {"cancelled", "already_cancelled"}
          /\ appointments[id].status = "cancelled"
             => /\ last'.result = "already_cancelled"
                /\ appointments' = appointments]_vars

\* C8 witness: the owner's second cancel has been answered, a second
\* appointment is still active.
C8_Witness ==
  /\ last = Ret("cancel_appointment", "already_cancelled")
  /\ \E i, j \in DOMAIN appointments :
       appointments[i].status = "cancelled" /\ appointments[j].status # "cancelled"

\* C10 (as claimed): modify_appointment by the owner onto a (date, time)
\* held by a different active appointment returns the conflict result and
\* leaves the appointment unchanged, and modify_appointment onto the
\* appointment's own current (date, time) succeeds.
C10_ModifyOntoHeldSlotConflicts ==
  [][\A s \in ToolSessions, id \in ApptIdInputs, nd \in ModifyDates, nt \in ModifyTimes :
       (/\ last'.op = "modify_appointment"
        /\ id \in DOMAIN appointments
        /\ activeSessions[s].userId = appointments[id].userId
        /\ (nd # "" \/ nt # <<>>)
        /\ modify_appointment(s, id, nd, nt))
       => LET d == IF nd # "" THEN nd ELSE appointments[id].date
              t == IF nt # <<>> THEN nt ELSE appointments[id].time
          IN  /\ (\E j \in DOMAIN appointments \ {id} : Holds(appointments, j, d, t))
                 => /\ last'.result = "slot_taken"
                    /\ appointments' = appointments
              /\ (d = appointments[id].date /\ t = appointments[id].time
                  /\ ~ \E j \in DOMAIN appointments \ {id} : Holds(appointments, j, d, t))
                 => last'.result = "rescheduled"]_vars

(***************************************************************************)
(* Claims about whole runs of tool calls and summaries, checked under      *)
(* SpecSummary.                                                            *)
(***************************************************************************)
\* C1 (as claimed): in every state reached by book, modify and cancel tool
\* calls and summarizer runs, each run to completion before the next, every
\* (date, time) is held by at most one appointment that is not cancelled.
C1_NoDoubleBooking ==
  \A i, j \in DOMAIN appointments :
    (/\ i # j
     /\ appointments[i].status # "cancelled"
     /\ appointments[j].status # "cancelled"
     /\ appointments[i].date = appointments[j].date)
    => appointments[i].time # appointments[j].time

(***************************************************************************)
(* Claims about identify_user, checked under SpecIdentify.                 *)
(***************************************************************************)
\* the number of digit characters in a phone string
DigitCount(phone) == Cardinality({i \in DOMAIN phone : phone[i] \in DigitChars})

\* C5: identify_user accepts a number only if it has exactly ten digits once
\* the non-digits are stripped; with fewer or more it returns the
\* repeat-it guidance, looks up and creates no user, and leaves the context
\* and the session record as they were.
C5_IdentifyNeedsTenDigits ==
  [][\A s \in SessionIds, phone \in PhoneInputs :
       (last'.op = "identify_user" /\ identify_user(s, phone))
       => IF DigitCount(phone) = PhoneDigits
          THEN last'.result \in {"created", "welcome_back"}
          ELSE /\ last'.result \in {"too_many_digits", "too_few_digits"}
               /\ users' = users
               /\ activeSessions' = activeSessions
               /\ callSessions' = callSessions]_vars

\* C5 witness: a session that has identified its user is given the guidance
\* for a short number, and the session record still names that user.
C5_Witness ==
  /\ last = Ret("identify_user", "too_few_digits")
  /\ \E s \in DOMAIN activeSessions :
       /\ activeSessions[s].userId # 0
       /\ callSessions[s].userId = activeSessions[s].userId

(***************************************************************************)
(* Claims about interleaved tool calls, checked under SpecRace.            *)
(***************************************************************************)
\* C2 (as claimed): of the booking attempts of two sessions for the same
\* (date, time) whose store calls interleave, at most one succeeds, so at
\* most one appointment for the slot is created.
C2_AtMostOneBookingSucceeds ==
  Cardinality({i \in DOMAIN appointments :
                 /\ appointments[i].status = "scheduled"
                 /\ appointments[i].date = Date29
                 /\ appointments[i].time = Time1100}) <= 1

C7_NameFillOnce ==
  [][/\ \A i \in DOMAIN users : users[i].name # "" => users'[i].name = users[i].name
     /\ \A c \in BeyCalls, name \in BeyNames :
          (/\ last'.op = "bey_set_user_name"
           /\ bey_set_user_name(c, name)
           /\ name # ""
           /\ getBeyContext(beyContexts, c).userId # 0
           /\ users[getBeyContext(beyContexts, c).userId].name = "")
          => users'[getBeyContext(beyContexts, c).userId].name = name]_vars

\* C9 (as claimed): a cancel or modify call, on the voice path, the
\* tool-execute path or the provider webhook, changes an appointment only
\* when its context has an identified user and that user owns the
\* appointment; otherwise no appointment changes.
C9_OwnershipGuard ==
  [][/\ \A s \in ToolSessions, id \in ApptIdInputs :
          (/\ last'.op \in {"cancel_appointment", "modify_appointment"}
           /\ \/ activeSessions[s].userId = 0
              \/ id \notin DOMAIN appointments
              \/ appointments[id].userId # activeSessions[s].userId
           /\ \/ cancel_appointment(s, id)
              \/ modify_appointment(s, id, "", Time0100))
          => appointments' = appointments
     /\ \A c \in BeyCalls, id \in ApptIdInputs :
          (/\ last'.op \in {"bey_cancel_appointment", "webhook_cancel_appointment"}
           /\ \/ getBeyContext(beyContexts, c).userId = 0
              \/ id \notin DOMAIN appointments
              \/ appointments[id].userId # getBeyContext(beyContexts, c).userId
           /\ \/ bey_cancel_appointment(c, id)
              \/ webhook_cancel_appointment(c, id))
          => appointments' = appointments]_vars

\* the catalog slots of a date
SlotsOfDate(d) == {availableSlots[i] : i \in {j \in DOMAIN availableSlots : availableSlots[j].date = d}}

\* some active appointment has this (date, time)
HeldByActive(appts, slot) ==
  \E i \in DOMAIN appts : Holds(appts, i, slot.date, slot.time)

\* the elements of a sequence
Range(q) == {q[i] : i \in DOMAIN q}

\* the slots a fetch_slots result names are catalog slots that no active
\* appointment holds, in catalog order
NamedAreFreeInOrder ==
  [][\A s \in ToolSessions, d \in BookDates :
       (last'.op = "fetch_slots" /\ fetch_slots(s, d)) =>
         /\ \A n \in Range(last'.slots) :
              /\ n \in Range(availableSlots)
              /\ ~HeldByActive(appointments, n)
              /\ (d # "" => n.date = d)
         /\ \A i, j \in DOMAIN last'.slots :
              i < j => \E a, b \in DOMAIN availableSlots :
                         /\ a < b
                         /\ availableSlots[a] = last'.slots[i]
                         /\ availableSlots[b] = last'.slots[j]]_vars

\* C11: fetch_slots reports the catalog slots that no active appointment of
\* any user holds: asked for a date, it names every slot of that date that no
\* active appointment has, so that a slot whose only appointment was
\* cancelled is reported again
C11_FetchReportsFreeSlots ==
  [][\A s \in ToolSessions, d \in BookDates \ {""} :
       (last'.op = "fetch_slots" /\ fetch_slots(s, d)) =>
         \A slot \in SlotsOfDate(d) :
           ~HeldByActive(appointments, slot) => slot \in Range(last'.slots)]_vars

\* the resolved user has an active appointment at (date, normalized time)
ActiveFor(appts, uid, d, t) ==
  \E i \in DOMAIN appts :
    /\ appts[i].userId = uid
    /\ appts[i].status # "cancelled"
    /\ appts[i].date = d
    /\ normalizeTime(appts[i].time) = normalizeTime(t)

\* the rows a step appended to the appointments table
NewRows == (Len(appointments) + 1) .. Len(appointments')

\* a run creates no appointment at a (date, normalized time) at which its
\* user already had an active appointment or at which it has just created
\* one, and newAppointmentsCreated counts the rows it created
NoCreationForActive ==
  [][\A s \in ToolSessions, data \in ResummaryInputs :
       (/\ last'.op = "generateCallSummary"
        /\ last'.result = "ok"
        /\ last'.input = <<s, data>>
        /\ endSession(s, "", "ok", data)) =>
         /\ last'.count = Cardinality(NewRows)
         /\ \A i \in NewRows :
              /\ ~ActiveFor(appointments, appointments'[i].userId,
                            appointments'[i].date, appointments'[i].time)
              /\ \A j \in NewRows :
                   (/\ appointments'[j].date = appointments'[i].date
                    /\ normalizeTime(appointments'[j].time)
                         = normalizeTime(appointments'[i].time)) => j = i]_vars

\* C12: a second run of the summarizer, after the first has finished, on the
\* same session and the same extracted requests creates no further
\* appointment
C12_SecondRunCreatesNothing ==
  [][\A s \in ToolSessions, data \in ResummaryInputs :
       (/\ last'.op = "generateCallSummary"
        /\ last.op = "generateCallSummary"
        /\ last.result = "ok"
        /\ last.input = <<s, data>>
        /\ endSession(s, "", "ok", data)) => NewRows = {}]_vars

\* C13: every run of the summarizer on an existing session, whether the
\* extraction succeeds, the LLM call fails or the LLM output is malformed,
\* leaves the session with status ended
C13_FinalizeNeverSkipped ==
  [][\A s \in ToolSessions :
       (last'.op = "generateCallSummary" /\ last'.input[1] = s)
         => callSessions'[s].status = "ended"]_vars

\* a run has gone through the catch block and its session is ended
C13_Witness ==
  /\ last.op = "generateCallSummary"
  /\ last.result = "fallback"
  /\ callSessions[last.input[1]].status = "ended"

\* C14: a run of the summarizer that ends through its fallback path has
\* created no appointment and cancelled none
C14_FallbackChangesNoAppointment ==
  [][(last'.op = "generateCallSummary" /\ last'.result = "fallback")
       => appointments' = appointments]_vars

\* the user a run works for: the user of the session or, without one, the
\* user who has the extracted phone number once the run is over; 0 if none
ResolvedUser(s, data) ==
  IF callSessions[s].userId # 0 THEN callSessions[s].userId
  ELSE getUserByPhoneNumber(users', extractedPhone(data, callSessions, s))

\* C15: the summarizer cancels only active appointments of the user it
\* resolved for the session and changes nothing else of a row; when it
\* resolves no user it changes no appointment
C15_CancelsOnlyOwn ==
  [][\A s \in ToolSessions, data \in ResummaryInputs \cup {MalformedData} :
       (last'.op = "generateCallSummary" /\ last'.input = <<s, data>>) =>
         /\ \A i \in DOMAIN appointments :
              appointments'[i] # appointments[i] =>
                /\ appointments[i].status # "cancelled"
                /\ appointments'[i] = [appointments[i] EXCEPT !.status = "cancelled"]
                /\ appointments[i].userId = ResolvedUser(s, data)
         /\ \A i \in NewRows : appointments'[i].userId = ResolvedUser(s, data)
         /\ ResolvedUser(s, data) = 0 => appointments' = appointments]_vars

\* a run has created an appointment on a slot that another user holds and
\* has cancelled it again: the other user's appointment is still active
C15_Witness ==
  /\ last.op = "generateCallSummary"
  /\ last.result = "ok"
  /\ last.count = 1
  /\ last.input[2].cancellationRequests # <<>>
  /\ appointments[Len(appointments)].status = "cancelled"
  /\ \E j \in DOMAIN appointments :
       /\ appointments[j].userId # appointments[Len(appointments)].userId
       /\ appointments[j].date = appointments[Len(appointments)].date
       /\ normalizeTime(appointments[j].time)
            = normalizeTime(appointments[Len(appointments)].time)
       /\ appointments[j].status # "cancelled"

\* the events of one type among the first n events of a turn
RECURSIVE countEvents(_, _, _)
countEvents(events, n, types) ==
  IF n = 0 THEN 0
  ELSE (IF events[n].type \in types THEN 1 ELSE 0) + countEvents(events, n - 1, types)

\* the step is the return of executeToolCall in the turn of session s
Executed(s) ==
  /\ inTurn(turn, s)
  /\ turn[s].pc = "exec"
  /\ turn'[s].pc \in {"tools", "stream"}

\* the user a valid identify_user call names, 0 if there is none
NamedUser(us, c) == getUserByPhoneNumber(us, digitsOnly(c.phone))

\* C16: within a turn the tool invocations execute one at a time in the
\* order the LLM listed them, and a later tool sees the context as an earlier
\* one left it: identify_user followed by book_appointment books for the user
\* just identified
C16_ToolsInOrderOnSharedContext ==
  [][\A s \in TurnSessions :
       Executed(s) =>
         LET n == Len(turn[s].events)
             k == Len(turn[s].plan) - Len(turn[s].calls) + 1
             c == turn[s].plan[k]
         IN  /\ last'.op = IF c.name \in {"identify_user", "book_appointment",
                                           "fetch_slots", "end_conversation"}
                            THEN c.name ELSE "unknown_tool"
             /\ countEvents(turn[s].events, n, {"tool_call_start"}) = k
             /\ countEvents(turn[s].events, n, {"tool_call_end"}) = k - 1
             /\ (/\ k > 1
                 /\ turn[s].plan[k - 1].name = "identify_user"
                 /\ Len(digitsOnly(turn[s].plan[k - 1].phone)) = PhoneDigits) =>
                  /\ activeSessions[s].userId # 0
                  /\ activeSessions[s].userId = NamedUser(users, turn[s].plan[k - 1])
                  /\ (c.name = "book_appointment" /\ last'.result = "booked") =>
                       appointments'[Len(appointments')].userId
                         = NamedUser(users, turn[s].plan[k - 1])]_vars

\* a session that was not identified when its turn began has identified a
\* user and booked for that user in the same turn
C16_Witness ==
  \E s \in TurnSessions :
    /\ inTurn(turn, s)
    /\ turn[s].pc = "stream"
    /\ Len(turn[s].plan) = 2
    /\ turn[s].plan[1].name = "identify_user"
    /\ turn[s].plan[2].name = "book_appointment"
    /\ activeSessions[s].messages = <<"user">>
    /\ last.op = "book_appointment"
    /\ last.result = "booked"
    /\ appointments[Len(appointments)].userId = NamedUser(users, turn[s].plan[1])

\* the last event a turn has emitted
lastEvent(t, s) == t[s].events[Len(t[s].events)]

\* C17: every turn, provided each of its LLM and store calls returns or
\* fails, eventually emits exactly one terminal event, done or error, and
\* nothing after it; a call that fails anywhere in the turn yields error and
\* never done
C17_OneTerminalEvent ==
  /\ [](\A s \in DOMAIN turn :
          LET n == Len(turn[s].events)
          IN  IF inTurn(turn, s)
              THEN countEvents(turn[s].events, n, {"done", "error"}) = 0
              ELSE /\ countEvents(turn[s].events, n, {"done", "error"}) = 1
                   /\ Terminal(lastEvent(turn, s)))
  /\ [][\A s \in TurnSessions :
          /\ (s \in DOMAIN turn /\ turn[s].pc = "returned")
               => turn'[s].events = turn[s].events
          /\ (/\ inTurn(turn, s)
              /\ \/ callFails(s)
                 \/ turn[s].pc = "tools" /\ ~nextCall(turn[s].calls).parses /\ toolStart(s))
               => /\ turn'[s].pc = "returned"
                  /\ lastEvent(turn', s).type = "error"]_vars
  /\ \A s \in TurnSessions :
       inTurn(turn, s) ~> (s \in DOMAIN turn /\ turn[s].pc = "returned")

\* a turn has ended with error after a tool had been started
C17_Witness ==
  \E s \in TurnSessions :
    /\ s \in DOMAIN turn
    /\ turn[s].pc = "returned"
    /\ lastEvent(turn, s).type = "error"
    /\ countEvents(turn[s].events, Len(turn[s].events), {"tool_call_start"}) = 2
    /\ countEvents(turn[s].events, Len(turn[s].events), {"done", "error"}) = 1

\* end_conversation is one of the tools the turn has executed
EndedCall(t, s) ==
  \E k \in 1 .. countEvents(t[s].events, Len(t[s].events), {"tool_call_end"}) :
    t[s].plan[k].name = "end_conversation"

\* C18: the done event of a turn carries endCall = true exactly when
\* end_conversation was one of the tools executed in the turn, and
\* end_conversation leaves the status of the session record as it is
C18_EndCallOnlyFromEndConversation ==
  /\ [](\A s \in DOMAIN turn :
          lastEvent(turn, s).type = "done"
            => (lastEvent(turn, s).endCall <=> EndedCall(turn, s)))
  /\ [][\A s \in TurnSessions :
          (Executed(s) /\ last'.op = "end_conversation")
            => callSessions' = callSessions]_vars

\* a turn that ran end_conversation and another tool after it is done with
\* endCall = true, and its session is still active
C18_Witness ==
  \E s \in TurnSessions :
    /\ s \in DOMAIN turn
    /\ turn[s].pc = "returned"
    /\ lastEvent(turn, s).type = "done"
    /\ lastEvent(turn, s).endCall
    /\ turn[s].plan[1].name = "end_conversation"
    /\ Len(turn[s].plan) = 2
    /\ callSessions[s].status = "active"

\* the tool_call_start and tool_call_end events of a turn alternate, start
\* first; the tool_calls row of an invocation is there when the tool runs
ToolEventsPaired ==
  /\ [](\A s \in DOMAIN turn :
          \A n \in 0 .. Len(turn[s].events) :
            LET started == countEvents(turn[s].events, n, {"tool_call_start"})
                ended   == countEvents(turn[s].events, n, {"tool_call_end"})
            IN  ended <= started /\ started <= ended + 1)
  /\ [][\A s \in TurnSessions :
          Executed(s) =>
            /\ toolCalls # <<>>
            /\ toolCalls[Len(toolCalls)].sessionId = s
            /\ toolCalls[Len(toolCalls)].toolName = nextCall(turn[s].calls).name
            /\ lastEvent(turn, s).type = "tool_call_start"
            /\ lastEvent(turn', s).type = "tool_call_end"]_vars

\* C19: every tool-started notification of a turn has its tool-ended
\* notification: when the turn has emitted its terminal event, it has
\* emitted as many tool_call_end events as tool_call_start events
C19_EveryStartHasItsEnd ==
  \A s \in DOMAIN turn :
    ~inTurn(turn, s) =>
      countEvents(turn[s].events, Len(turn[s].events), {"tool_call_start"})
        = countEvents(turn[s].events, Len(turn[s].events), {"tool_call_end"})

\* C20: a turn that ends with error leaves the context of its session and
\* the store as they are, the route keeps the context when it ends the
\* response, and the next turn of the session starts with that context, the
\* new utterance appended
C20_ErrorKeepsContextAndWrites ==
  [][\A s \in TurnSessions :
       /\ (/\ inTurn(turn, s)
           /\ turn'[s].pc = "returned"
           /\ lastEvent(turn', s).type = "error")
            => /\ activeSessions' = activeSessions
               /\ <<users, appointments, callSessions, toolCalls>>'
                    = <<users, appointments, callSessions, toolCalls>>
       /\ (s \in DOMAIN turn /\ turn[s].pc = "returned" /\ turn'[s].pc = "closed")
            => /\ activeSessions' = activeSessions
               /\ appointments' = appointments
       /\ (/\ s \in DOMAIN turn
           /\ turn[s].pc = "closed"
           /\ turn'[s].pc = "llm"
           /\ turn'[s].prev = "error")
            => /\ activeSessions'[s]
                    = [activeSessions[s] EXCEPT !.messages = Append(@, "user")]
               /\ appointments' = appointments]_vars

\* a turn identified a user, booked for that user and then ended with
\* error; the next turn of the session has begun with that user, both
\* utterances and the appointment
C20_Witness ==
  \E s \in TurnSessions :
    /\ inTurn(turn, s)
    /\ turn[s].pc = "llm"
    /\ turn[s].prev = "error"
    /\ activeSessions[s].messages = <<"user", "user">>
    /\ activeSessions[s].userId # 0
    /\ Len(toolCalls) = 2
    /\ \E i \in DOMAIN appointments :
         /\ appointments[i].userId = activeSessions[s].userId
         /\ appointments[i].status = "scheduled"

(***************************************************************************)
(* Claims about the identified user of a session.                          *)
(***************************************************************************)
\* C21 (as claimed): once identify_user has succeeded in a session, the
\* userId of the session's context and of its session record stay that
\* user's id whatever tool call comes next.
C21_OneIdentifiedUserPerSession ==
  [][\A s \in DOMAIN activeSessions :
       (/\ activeSessions[s].userId # 0
        /\ s \in DOMAIN activeSessions')
       => /\ activeSessions'[s].userId = activeSessions[s].userId
          /\ callSessions'[s].userId = activeSessions[s].userId]_vars

(***************************************************************************)
(* Claims about the transcript of a session, checked under SpecTranscript. *)
(***************************************************************************)
\* the stored transcript survives a run that is given none
TranscriptKept ==
  [][\A s \in ToolSessions :
       (/\ last'.op = "generateCallSummary"
        /\ last'.input[1] = s
        /\ callSessions[s].transcript # ""
        /\ \E o \in ResummaryOutcomes, data \in TranscriptData :
             endSession(s, "", o, data))
       => callSessions'[s].transcript = callSessions[s].transcript]_vars

\* C22 (as claimed): a summarizer run without a transcript argument, for a
\* session that has a stored transcript, puts the stored transcript into
\* its extraction prompt, and the session's transcript is the same after
\* the run.
C22_StoredTranscriptIsUsed ==
  [][\A s \in ToolSessions :
       (/\ last'.op = "generateCallSummary"
        /\ last'.input[1] = s
        /\ callSessions[s].transcript # ""
        /\ \E o \in ResummaryOutcomes, data \in TranscriptData :
             endSession(s, "", o, data))
       => /\ last'.prompt = callSessions[s].transcript
          /\ callSessions'[s].transcript = callSessions[s].transcript]_vars

(***************************************************************************)
(* Claims about missing and malformed arguments, checked under SpecArgs.   *)
(***************************************************************************)
\* the results that are a guidance text: the call returned, and it did
\* nothing
GuidanceResults ==
  {"too_many_digits", "too_few_digits", "not_identified", "slot_taken",
   "invalid_slot", "not_found", "not_owner", "already_cancelled",
   "nothing_to_change"}

StoreUnchanged ==
  <<users, appointments, callSessions>>' = <<users, appointments, callSessions>>

\* the calls with a missing or malformed argument other than a missing
\* phone_number return a guidance text and leave the store as it is
MissingArgumentsAnswered ==
  [][\A s \in ToolSessions :
       /\ (last'.op = "identify_user" /\ identify_user(s, PhoneShort))
            => last'.result \in GuidanceResults /\ StoreUnchanged
       /\ \A d \in BookDates, t \in ArgTimes :
            (/\ last'.op = "book_appointment"
             /\ (d = "" \/ t = <<>>)
             /\ book_appointment(s, d, t))
            => last'.result \in GuidanceResults /\ StoreUnchanged
       /\ (last'.op = "cancel_appointment" /\ cancel_appointment(s, 0))
            => last'.result \in GuidanceResults /\ StoreUnchanged
       /\ \A d \in ModifyDates, t \in ArgTimes :
            (last'.op = "modify_appointment" /\ modify_appointment(s, 0, d, t))
            => last'.result \in GuidanceResults /\ StoreUnchanged]_vars

\* C23 (as claimed): a tool call with a missing or malformed argument
\* (identify_user without phone_number, cancel_appointment or
\* modify_appointment without appointment_id, book_appointment without date
\* or time) does not throw: it returns a guidance text and leaves the store
\* unchanged.
C23_MissingArgumentNeverRaises ==
  [][\A s \in ToolSessions :
       /\ \A phone \in {PhoneAbsent, PhoneShort} :
            (last'.op = "identify_user" /\ identify_user(s, phone))
            => last'.result \in GuidanceResults /\ StoreUnchanged
       /\ \A d \in BookDates, t \in ArgTimes :
            (/\ last'.op = "book_appointment"
             /\ (d = "" \/ t = <<>>)
             /\ book_appointment(s, d, t))
            => last'.result \in GuidanceResults /\ StoreUnchanged
       /\ (last'.op = "cancel_appointment" /\ cancel_appointment(s, 0))
            => last'.result \in GuidanceResults /\ StoreUnchanged
       /\ \A d \in ModifyDates, t \in ArgTimes :
            (last'.op = "modify_appointment" /\ modify_appointment(s, 0, d, t))
            => last'.result \in GuidanceResults /\ StoreUnchanged]_vars

(***************************************************************************)
(* Claims about store failures in the summarizer, checked under            *)
(* SpecResummary.                                                          *)
(***************************************************************************)
\* C24 (as claimed): a run of the summarizer in which a store operation
\* fails (here storage.createAppointment for a request that is no
\* duplicate) is answered as a failure: it returns neither the normal result
\* nor the fallback result.
C24_StoreFailureSurfaced ==
  [][\A s \in ToolSessions, data \in ResummaryInputs :
       (/\ last'.op = "generateCallSummary"
        /\ last'.input = <<s, data>>
        /\ summaryApplied(users, appointments, callSessions, s, data, TRUE).rejected > 0
        /\ endSession(s, "", "store_error", data))
       => last'.result \notin {"ok", "fallback"}]_vars

(***************************************************************************)
(* Claims about modify_appointment.                                        *)
(***************************************************************************)
\* C25 (as claimed): an appointment whose status is cancelled keeps that
\* status through every tool call and every summarizer run.
C25_CancelledIsTerminal ==
  [][\A i \in DOMAIN appointments :
       appointments[i].status = "cancelled"
         => appointments'[i].status = "cancelled"]_vars

\* the slot-taken result is given only when another active appointment holds
\* the target
TakenOnlyIfHeldByAnother ==
  [][\A s \in ToolSessions, id \in ApptIdInputs, nd \in ModifyDates, nt \in ModifyTimes :
       (/\ last'.op = "modify_appointment"
        /\ last'.result = "slot_taken"
        /\ id \in DOMAIN appointments
        /\ modify_appointment(s, id, nd, nt))
       => \E j \in DOMAIN appointments \ {id} :
            Holds(appointments, j, targetDate(appointments[id], nd),
                  targetTime(appointments[id], nt))]_vars

\* C26 (as claimed): modify_appointment by the owner with a new date or a
\* new time returns the slot-taken result exactly when an active appointment
\* other than the one being modified holds the target (date, time), whether
\* or not the appointment being modified is cancelled and whether or not
\* another appointment shares its current (date, time).
C26_SlotTakenIffHeldByAnother ==
  [][\A s \in ToolSessions, id \in ApptIdInputs, nd \in ModifyDates, nt \in ModifyTimes :
       (/\ last'.op = "modify_appointment"
        /\ id \in DOMAIN appointments
        /\ activeSessions[s].userId = appointments[id].userId
        /\ (nd # "" \/ nt # <<>>)
        /\ modify_appointment(s, id, nd, nt))
       => (last'.result = "slot_taken"
           <=> \E j \in DOMAIN appointments \ {id} :
                 Holds(appointments, j, targetDate(appointments[id], nd),
                       targetTime(appointments[id], nt)))]_vars

\* C27: a modify_appointment that succeeds leaves the table with the same
\* rows, of which only the one named has changed: its date and its time are
\* the new ones where given and the old ones where not, its status is
\* scheduled, its owner and its description are what they were; users,
\* session records and contexts are unchanged
C27_ModifyChangesOnlyDateTimeStatus ==
  [][\A s \in ToolSessions, id \in ApptIdInputs, nd \in ModifyDates, nt \in ModifyTimes :
       (/\ last'.op = "modify_appointment"
        /\ last'.result = "rescheduled"
        /\ modify_appointment(s, id, nd, nt))
       => /\ id \in DOMAIN appointments
          /\ DOMAIN appointments' = DOMAIN appointments
          /\ \A j \in DOMAIN appointments \ {id} : appointments'[j] = appointments[j]
          /\ appointments'[id].userId = appointments[id].userId
          /\ appointments'[id].description = appointments[id].description
          /\ appointments'[id].status = "scheduled"
          /\ appointments'[id].date = IF nd # "" THEN nd ELSE appointments[id].date
          /\ appointments'[id].time = IF nt # <<>> THEN nt ELSE appointments[id].time
          /\ <<users, callSessions, activeSessions>>'
               = <<users, callSessions, activeSessions>>]_vars

\* the appointment the summary of an earlier call created has been moved to
\* 01:00 PM: it is scheduled, keeps its description and its owner, and the
\* other appointment is as it was booked
C27_Witness ==
  /\ last = Ret("modify_appointment", "rescheduled")
  /\ Len(appointments) = 2
  /\ appointments[1] = [userId |-> 2, date |-> Date29, time |-> Time0100,
                        description |-> VoiceCallDescription, status |-> "scheduled"]
  /\ appointments[2].status = "scheduled"
  /\ appointments[2].description = ""

(***************************************************************************)
(* Claims about the tools that only read, checked under Spec.              *)
(***************************************************************************)
ReadOnlyTools ==
  {"fetch_slots", "retrieve_appointments", "end_conversation", "unknown_tool"}

\* C28: every call of fetch_slots, retrieve_appointments, end_conversation
\* or a tool of unknown name, the first and every repeated one, leaves
\* users, appointments and session records as they are and leaves userId,
\* phoneNumber and userName of every context as they are
C28_ReadOnlyToolsChangeNothing ==
  [][last'.op \in ReadOnlyTools
       => /\ users' = users
          /\ appointments' = appointments
          /\ callSessions' = callSessions
          /\ DOMAIN activeSessions' = DOMAIN activeSessions
          /\ \A s \in DOMAIN activeSessions :
               /\ activeSessions'[s].userId = activeSessions[s].userId
               /\ activeSessions'[s].phoneNumber = activeSessions[s].phoneNumber
               /\ activeSessions'[s].userName = activeSessions[s].userName]_vars

\* end_conversation has run in a store that holds an active and a cancelled
\* appointment, and the sessions still know their users
C28_Witness ==
  /\ last.op = "end_conversation"
  /\ \E i, j \in DOMAIN appointments :
       appointments[i].status = "cancelled" /\ appointments[j].status = "scheduled"
  /\ activeSessions[1].userId = 1
  /\ activeSessions[2].userId = 2
  /\ callSessions[1].userId = 1

(***************************************************************************)
(* Claims about the message history of a turn, checked under SpecTurn.     *)
(***************************************************************************)
\* the turn of session s has a reply: without tool calls the text of the
\* first completion, with tool calls the transcript that was streamed
HasReply(t, s) ==
  IF t[s].plan = <<>> THEN t[s].content # ""
  ELSE countEvents(t[s].events, Len(t[s].events), {"transcript"}) > 0

\* the steps of a turn other than its last leave the history alone, and the
\* turn begins with the utterance appended, before the first completion
HistoryUntilCompletion(s) ==
  /\ (noRequest(turn, s) /\ s \in DOMAIN turn' /\ turn'[s].pc = "llm")
       => activeSessions'[s].messages
            = Append(getOrCreate(activeSessions, s).messages, "user")
  /\ (inTurn(turn, s) /\ inTurn(turn', s))
       => activeSessions'[s].messages = activeSessions[s].messages
  /\ (s \in DOMAIN turn /\ turn[s].pc = "returned")
       => activeSessions'[s].messages = activeSessions[s].messages

\* C29 (as claimed): the utterance is appended before the first LLM call,
\* and the reply is appended exactly once, after all tool executions and all
\* streamed output, in every turn that ends with done and in no turn that
\* ends with error.
C29_ReplyAppendedInEveryDoneTurn ==
  [][\A s \in TurnSessions :
       /\ HistoryUntilCompletion(s)
       /\ (inTurn(turn, s) /\ turn'[s].pc = "returned")
            => IF lastEvent(turn', s).type = "done"
               THEN /\ activeSessions'[s].messages
                         = Append(activeSessions[s].messages, "assistant")
                    /\ turn[s].calls = <<>>
               ELSE activeSessions'[s].messages = activeSessions[s].messages]_vars

\* C29 (amended): the utterance is appended before the first LLM call; the
\* reply is appended exactly once, after all tool executions and all
\* streamed output, in every turn that ends with done and has a reply; a
\* turn that ends with done without a reply (the first completion gave
\* neither text nor tool calls, or the stream after the tool calls carried
\* no transcript) and a turn that ends with error append nothing.
C29_ReplyAppendedWhenThereIsOne ==
  [][\A s \in TurnSessions :
       /\ HistoryUntilCompletion(s)
       /\ (inTurn(turn, s) /\ turn'[s].pc = "returned")
            => IF lastEvent(turn', s).type = "done" /\ HasReply(turn, s)
               THEN /\ activeSessions'[s].messages
                         = Append(activeSessions[s].messages, "assistant")
                    /\ turn[s].calls = <<>>
                    /\ turn[s].pc \in {"stream"}
               ELSE activeSessions'[s].messages = activeSessions[s].messages]_vars

\* the first turn of the session ended with done and without a reply, the
\* second ran its tools, streamed its reply and ended with done: the history
\* is the two utterances and the one reply
C29_Witness ==
  \E s \in TurnSessions :
    /\ s \in DOMAIN turn
    /\ turn[s].pc = "returned"
    /\ turn[s].prev = "done"
    /\ lastEvent(turn, s).type = "done"
    /\ turn[s].plan # <<>>
    /\ countEvents(turn[s].events, Len(turn[s].events), {"tool_call_end"}) = 2
    /\ activeSessions[s].messages = <<"user", "user", "assistant">>

(***************************************************************************)
(* Claims about the appointments the summarizer creates, checked under     *)
(* SpecCreate.                                                             *)
(***************************************************************************)
\* the request of the extraction that row answers: it has a date and a time,
\* and they are the row's
RequestedBy(data, row) ==
  \E k \in DOMAIN data.appointmentRequests :
    /\ data.appointmentRequests[k].date # ""
    /\ data.appointmentRequests[k].time # <<>>
    /\ data.appointmentRequests[k].date = row.date
    /\ data.appointmentRequests[k].time = row.time

\* the run was asked to cancel the (date, time) of row
CancelledBy(data, row) ==
  \E k \in DOMAIN data.cancellationRequests :
    /\ data.cancellationRequests[k].date = row.date
    /\ normalizeTime(data.cancellationRequests[k].time) = normalizeTime(row.time)

\* C30: every row a summarizer run adds answers a booking request of the
\* extraction that has both a date and a time, is owned by the user the run
\* resolved (so a run that resolves no user adds none) and is created with
\* status pending (a row that a cancellation request of the same run names
\* is cancelled by the end of the run); the run removes no row, and the
\* newAppointmentsCreated of its result is the number of rows it added
C30_CreatesOnlyRequestedPending ==
  [][\A s \in ToolSessions, data \in CreateInputs \cup {MalformedData} :
       (last'.op = "generateCallSummary" /\ last'.input = <<s, data>>) =>
         /\ Len(appointments') >= Len(appointments)
         /\ \A i \in NewRows :
              /\ RequestedBy(data, appointments'[i])
              /\ ResolvedUser(s, data) # 0
              /\ appointments'[i].userId = ResolvedUser(s, data)
              /\ \/ appointments'[i].status = "pending"
                 \/ /\ appointments'[i].status = "cancelled"
                    /\ CancelledBy(data, appointments'[i])
         /\ last'.result = "ok" => last'.count = Cardinality(NewRows)]_vars

\* a run for the session that had no user has resolved the caller by the
\* number in the transcript and created one appointment for its three
\* requests: one has no date, two ask for the same slot
C30_Witness ==
  /\ last.op = "generateCallSummary"
  /\ last.result = "ok"
  /\ last.count = 1
  /\ last.input[1] = 3
  /\ Len(last.input[2].appointmentRequests) = 3
  /\ appointments # <<>>
  /\ appointments[Len(appointments)].status = "pending"
  /\ appointments[Len(appointments)].userId = 1
  /\ users[1].name = "Alice"

(***************************************************************************)
(* Claims about what the summarizer returns, checked under SpecCreate.     *)
(***************************************************************************)
\* C31: the name and the phone number a summarizer run returns are those of
\* the user it resolved, also when the session is already linked to a user
\* and the extraction yields another name or number
C31_ReturnsResolvedUser ==
  [][\A s \in ToolSessions, data \in CreateInputs \cup {MalformedData} :
       (/\ last'.op = "generateCallSummary"
        /\ last'.input = <<s, data>>
        /\ ResolvedUser(s, data) # 0) =>
         /\ last'.userName = users'[ResolvedUser(s, data)].name
         /\ last'.phoneNumber = users'[ResolvedUser(s, data)].phoneNumber]_vars

(***************************************************************************)
(* Claims about the agent of a video call, checked under SpecCall.         *)
(***************************************************************************)
\* C32: a video call started with the phone number of a known user uses an
\* agent whose prompt carries that user's active appointments as the store
\* holds them when the call is created
C32_CallAgentHasCurrentAppointments ==
  [][\A phone \in CallPhones :
       (/\ last'.op = "bey_call"
        /\ last'.input = <<phone>>
        /\ Len(beyCalls') = Len(beyCalls) + 1
        /\ getUserByPhoneNumber(users, digitsOnly(phone)) # 0) =>
         agentPrompt(beyAgents', beyCalls'[Len(beyCalls')].agentId)
           = appointmentContext(appointments,
               getAppointmentsByUser(appointments,
                 getUserByPhoneNumber(users, digitsOnly(phone))))]_vars

(***************************************************************************)
(* Claims about the slots the stored appointments occupy.                  *)
(***************************************************************************)
\* C33: every active appointment of the store occupies a (date, time) of
\* the slot catalog, whichever path created or moved it
C33_ActiveAppointmentsOnCatalogSlots ==
  \A i \in DOMAIN appointments :
    appointments[i].status # "cancelled" =>
      isValidSlot(appointments[i].date, appointments[i].time)

\* the catalog slots that an active appointment created by the summarizer
\* denotes: same date, and a time that normalizeTime maps to the label
DenotedBySummarized(appts) ==
  {availableSlots[k] : k \in {j \in DOMAIN availableSlots :
     \E i \in DOMAIN appts :
       /\ appts[i].status = "pending"
       /\ appts[i].date = availableSlots[j].date
       /\ normalizeTime(appts[i].time) = availableSlots[j].time}}

\* C34: while an appointment the summarizer created for a catalog slot is
\* active, fetch_slots does not report the slot and book_appointment for
\* the slot returns the conflict result
C34_SummarizedSlotIsHeld ==
  [][/\ last'.op = "fetch_slots" =>
          \A k \in DOMAIN last'.slots :
            last'.slots[k] \notin DenotedBySummarized(appointments)
     /\ \A s \in ToolSessions, t \in SlotTimes :
          (/\ last'.op = "book_appointment"
           /\ book_appointment(s, Date29, t)
           /\ activeSessions[s].userId # 0
           /\ Slot(Date29, t) \in DenotedBySummarized(appointments)) =>
            last'.result = "slot_taken"]_vars

\* C35: the summarizer creates no appointment on a (date, time) that an
\* active appointment of another user holds
C35_SummarizerRespectsOtherUsers ==
  [][last'.op = "generateCallSummary" =>
       \A n \in NewRows :
         ~ \E i \in DOMAIN appointments :
             /\ appointments[i].status # "cancelled"
             /\ appointments[i].userId # appointments'[n].userId
             /\ appointments[i].date = appointments'[n].date
             /\ appointments[i].time = appointments'[n].time]_vars

(***************************************************************************)
(* Claims about two summarizer runs of one session, checked under          *)
(* SpecEndRace.                                                            *)
(***************************************************************************)
\* C36: two runs on the same session and transcript whose store calls
\* interleave create together at most one appointment per (user, date,
\* normalized time)
C36_RunsCreateOnePerSlot ==
  \A r1 \in DOMAIN pend, r2 \in DOMAIN pend :
    \A i \in pend[r1].made, j \in pend[r2].made :
      i # j =>
        ~ /\ appointments[i].userId = appointments[j].userId
          /\ appointments[i].date = appointments[j].date
          /\ normalizeTime(appointments[i].time) = normalizeTime(appointments[j].time)

(***************************************************************************)
(* Claims about a session that is ended while it takes turns, checked      *)
(* under SpecEndTurn.                                                      *)
(***************************************************************************)
\* C37: once the end request of a session has completed, the
\* activeSessions map holds no context for the session, also when a turn of
\* the session was running while the summary was generated: no step of a
\* request that is being served puts the session back into the map
C37_EndedSessionStaysOutOfMap ==
  [][\A s \in TurnSessions :
       (/\ callSessions[s].status = "ended"
        /\ s \notin DOMAIN sessionMap(activeSessions, turn)
        /\ ~noRequest(turn, s)) =>
         s \notin DOMAIN sessionMap(activeSessions', turn')]_vars

\* C38: a conversation turn submitted for a session whose record has the
\* status ended creates, modifies and cancels no appointment and identifies
\* no user for the session
C38_NoWritesAfterEnded ==
  [][\A s \in TurnSessions :
       (/\ s \in DOMAIN turn
        /\ turn[s].late
        /\ inTurn(turn, s)) =>
         /\ appointments' = appointments
         /\ callSessions'[s].userId = callSessions[s].userId
         /\ activeSessions'[s].userId = activeSessions[s].userId]_vars

(***************************************************************************)
(* Claims about the context and the record of a session, checked under     *)
(* SpecTurnFail.                                                           *)
(***************************************************************************)
\* C39: whenever the context of a session holds an identified user, the
\* record of the session holds the same user and the same phone number,
\* also after a turn in which a store call of identify_user failed
C39_ContextAgreesWithRecord ==
  \A s \in DOMAIN activeSessions :
    activeSessions[s].userId # 0 =>
      /\ s \in DOMAIN callSessions
      /\ callSessions[s].userId = activeSessions[s].userId
      /\ callSessions[s].phoneNumber = activeSessions[s].phoneNumber

(***************************************************************************)
(* Claims about the users table, checked under SpecBey.                    *)
(***************************************************************************)
\* C40: the phone number of every user record consists of exactly ten
\* digits, whichever path created the user
C40_UserPhonesHaveTenDigits ==
  \A u \in DOMAIN users :
    /\ Len(users[u].phoneNumber) = PhoneDigits
    /\ \A k \in DOMAIN users[u].phoneNumber : IsDigit(users[u].phoneNumber[k])

=============================================================================
